---- MODULE Spec2Model ----
(***************************************************************************)
(* Power-mix simulator and optimizer of timberborn-vibed-power-mix.        *)
(*                                                                         *)
(* Units.  The wind strength is a float64 in [0,1) in the code, a multiple  *)
(* of 2^-53; it is kept here as an odd number of 200ths (1, 3, .. 199),    *)
(* the midpoints of the hundredths: like the code's draws, which cannot    *)
(* equal 0.20 or 0.30 (neither is a multiple of 2^-53), a strength here    *)
(* never equals a threshold.  Every power and energy quantity of the       *)
(* sample pipeline is kept in 200ths of hp/hph (STRENGTH_SCALE), so that   *)
(* strength * power_rate stays an integer.  The battery fold on its own    *)
(* (SpecFold) works in plain hp/hph.                                       *)
(*                                                                         *)
(* Specifications:                                                         *)
(*   SpecFold    the battery fold, hour by hour, two runs on one series    *)
(*   SpecSeason  the season schedule for every small season configuration  *)
(*   SpecBoundaries  the loop of calculate_season_boundaries, step by     *)
(*               step, with the fairness of a sequential program          *)
(*   SpecSample  one sample through run_simulation_task, the prange body   *)
(*               of jit_parallel_simulation, or the legacy single run      *)
(*   SpecBatch   the Monte-Carlo drivers, run twice in one process:        *)
(*               run_visualization with its worker batches and RNG         *)
(*               service, evaluate_config, run_simulation on numba threads *)
(*   SpecOpt     the optimizer's history and find_optimal_solutions        *)
(*   SpecSearch  optimize: its rounds of concurrent optimization_worker    *)
(*               calls sharing the RNG service, and the bests it keeps     *)
(***************************************************************************)
EXTENDS Integers, Sequences, FiniteSets, TLC

VARIABLES
    \* ---- SpecFold: jit_stochastic_simulation / simulate_scenario fold
    fold_mix,          \* run -> [battery, battery_height] of the run's EnergyMixConfig
    total_hours,       \* length of the horizon being folded
    power_surplus,     \* the hourly surplus series read so far (shared by both runs)
    fold_i,            \* loop index i of `for i in range(total_hours)`
    current_charge,    \* run -> current_charge
    battery_charge,    \* run -> the recorded battery_charge array (first fold_i entries)
    effective_balance, \* run -> the recorded effective_balance array
    \* ---- SpecSeason: the season schedule of a sample
    season_cfg,        \* [days, wet_days, dry_days, badtide_days]
    season_done,       \* the implementations that have computed their schedule
    season_raised,     \* implementation -> "none" or the exception raised
    boundaries_impl,   \* "helpers" (helpers.py) | "legacy" (simulation.py)
    curr_day,          \* calculate_season_boundaries: curr_day
    season_boundaries, \* calculate_season_boundaries: the list built so far
    boundaries_pc,     \* the statement the loop is at, or "returned"
    is_water_active,   \* implementation -> the is_water_active array (<<>> before)
    \* ---- SpecSample: one sample through one of the three sample paths
    sample_params,     \* SimulationParams / SimulationConfig of the sample
    sample_path,       \* "task" | "core" | "single": the caller's path
    sample_rng,        \* the Generator handed to the sample
    sample_pc,         \* "ready" | "done"
    sample_hours_empty,\* hours_empty as the path reports it
    sample_data,       \* the SimulationResult / SimulationSample of the path
    \* ---- SpecOpt: the optimizer
    history,           \* optimize: the list of results returned as the history
    optimal_solutions, \* run_optimization: what find_optimal_solutions returned
    opt_pc,            \* "search" | "found"
    given_max_empty_percent, \* find_optimal_solutions: its max_empty_percent argument
    \* ---- SpecBatch: the Monte-Carlo drivers
    entry,             \* "visualize" | "evaluate" | "core": the driver called
    drv_params,        \* its SimulationParams / SimulationConfig
    n_samples,         \* samples_per_sim / samples_per_config / config.samples
    num_workers,       \* os.process_cpu_count() / numba threads
    root_seed,         \* the seed of the root generator
    n_children_spawned,\* RNGService._main_rng: children spawned so far
    batches,           \* per submitted batch (or numba thread): count, samples
                       \* done, position, its Generator, its results
    run_empty_hours,   \* run_visualization run_empty_hours / hours_empty_results
    final_surpluses,   \* jit_parallel_simulation final_surpluses
    max_hours_empty,   \* run_visualization max_hours_empty
    worst_run_data,    \* run_visualization worst_run_data: <<>> is None
    aggregate,         \* what the driver returned: <<>> before, else <<result>>
    drv_raised,        \* "none" or the exception the driver raised
    drv_pc,            \* "running" | "done"
    run_no,            \* 1 | 2: the run of the driver in this process
    first_run,         \* <<>> or <<[num_workers, run_empty_hours]>> of run 1
    issued_streams,    \* history: child index of every get_generator return
    sample_streams,    \* history: child index of the Generator of every sample
    \* ---- SpecSearch: optimize and its walkers
    search_args,       \* optimize: base_params, simulations_per_config, bounds,
                       \* the pool size, worker_iterations, num_rounds, the seed
    streams_spawned,   \* RNGService._main_rng: children spawned so far
    start_params_list, \* optimize start_params_list
    walkers,           \* per optimization_worker call of the round: position,
                       \* _rng, current_result, iterations done, and what its
                       \* last mutate_params call was given and gave
    round_num,         \* optimize: rounds completed
    best_result,       \* optimize best_result: <<>> is None
    best_valid_result, \* optimize best_valid_result: <<>> is None
    search_history,    \* optimize history
    returned_results,  \* history: every result a worker has returned
    search_pc,         \* "running" | "done" | "raised"
    search_raised      \* "none" or the exception optimize raised

foldVars == <<fold_mix, total_hours, power_surplus, fold_i, current_charge,
              battery_charge, effective_balance>>

seasonVars == <<season_cfg, season_done, season_raised, is_water_active,
                boundaries_impl, curr_day, season_boundaries, boundaries_pc>>

sampleVars == <<sample_params, sample_path, sample_rng, sample_pc,
                sample_hours_empty, sample_data>>

optVars == <<history, optimal_solutions, opt_pc,
             given_max_empty_percent>>

batchVars == <<entry, drv_params, n_samples, num_workers, root_seed,
               n_children_spawned, batches, run_empty_hours, final_surpluses,
               max_hours_empty, worst_run_data, aggregate, drv_raised, drv_pc,
               run_no, first_run, issued_streams, sample_streams>>

searchVars == <<search_args, streams_spawned, start_params_list, walkers,
                round_num, best_result, best_valid_result, search_history,
                returned_results, search_pc, search_raised>>

vars == <<foldVars, seasonVars, sampleVars, optVars, batchVars, searchVars>>

\* ------------------------------------------------------------------ bounds

MaxFoldHours == 4
MaxBattery == 2
MaxBatteryHeight == 1
MaxSeasonDays == 3
MaxSeasonLen == 2
\* entries of season_boundaries that are kept; a loop that returns appends at
\* most four per day of the horizon
MaxBoundaries == 4 * (MaxSeasonDays + 1)
MaxSampleDays == 1
MaxSeed == 1
MaxHistory == 3
MaxBatchDays == 1
MaxSamples == 3
MaxWorkers == 2
MaxSearchSamples == 1
MaxSearchSeed == 4
MaxWalkers == 2
MaxWorkerIterations == 2
MaxSearchIterations == 2

\* ------------------------------------------------------------- arithmetic

Min(a, b) == IF a < b THEN a ELSE b

Max(a, b) == IF a > b THEN a ELSE b

RECURSIVE SeqSum(_)
SeqSum(s) == IF s = <<>> THEN 0 ELSE s[1] + SeqSum(Tail(s))

\* mutant of CountNonPositive: zero is not counted
CountNegative(arr) == Cardinality({h \in 1..Len(arr) : arr[h] < 0})

\* np.sum(arr <= 0): the number of entries at or below zero
CountNonPositive(arr) == Cardinality({h \in 1..Len(arr) : arr[h] <= 0})

\* ----------------------------------------------------------------- catalog

HOURS_PER_DAY == 24

GRAVITY_BATTERY ==
    [base_capacity |-> 4000, capacity_per_height |-> 2000,
     base_cost |-> 84, cost_per_height |-> 6]

PRODUCER_DATABASE ==
    [water_wheel    |-> [power |-> 150, cost |-> 50],
     windmill       |-> [power |-> 150, cost |-> 40],
     large_windmill |-> [power |-> 300, cost |-> 75],
     power_wheel    |-> [power |-> 50,  cost |-> 50]]

FACTORY_DATABASE ==
    [lumber_mill |-> [power |-> 50, cost |-> 0],
     wood_workshop |-> [power |-> 250, cost |-> 0]]

\* mutant of battery_capacity: sign slip on the height term
battery_capacity_sign_slip(height) ==
    GRAVITY_BATTERY.base_capacity - (height * GRAVITY_BATTERY.capacity_per_height)

battery_capacity(height) ==
    GRAVITY_BATTERY.base_capacity + (height * GRAVITY_BATTERY.capacity_per_height)

battery_cost(height) ==
    GRAVITY_BATTERY.base_cost + (height * GRAVITY_BATTERY.cost_per_height)

calculate_total_battery_capacity(energy_mix) ==
    energy_mix.battery * battery_capacity(energy_mix.battery_height)

\* ------------------------------------------------------------ battery fold

\* mutant of battery_fold_step: the charging branch stores the whole surplus
battery_fold_step_unclamped(charge, surplus, capacity) ==
    IF surplus > 0
    THEN [charge |-> charge + surplus, balance |-> 0]
    ELSE LET deficit == -surplus
             energy_from_battery == Min(deficit, charge)
         IN [charge |-> charge - energy_from_battery,
             balance |-> -(deficit - energy_from_battery)]

\* One iteration of the fold loop: the charge after the hour and the hour's
\* effective balance (unstored surplus, or uncovered deficit as a negative).
battery_fold_step(charge, surplus, capacity) ==
    IF surplus > 0
    THEN LET space_available == capacity - charge
             energy_to_store == Min(surplus, space_available)
         IN [charge |-> charge + energy_to_store,
             balance |-> surplus - energy_to_store]
    ELSE LET deficit == -surplus
             energy_available == charge
             energy_from_battery == Min(deficit, energy_available)
         IN [charge |-> charge - energy_from_battery,
             balance |-> -(deficit - energy_from_battery)]

\* mutant of initial_charge: the battery starts full
initial_charge_full(capacity) == capacity

\* current_charge = total_battery_capacity / 2 (capacity is a multiple of 2000)
initial_charge(capacity) == capacity \div 2

\* --------------------------------------------------------- season schedule

\* A numpy float64 array element: a value in 24ths of a day, or NaN.
NaN == [nan |-> TRUE, val |-> 0]

Float24(n) == [nan |-> FALSE, val |-> n]

\* numpy integer remainder (numba array expression): 0 on a zero divisor,
\* with no exception raised
np_remainder_int(a, b) == IF b = 0 THEN 0 ELSE a % b

\* numpy float remainder of x (24ths of a day) by a whole number of days:
\* NaN on a zero divisor (a RuntimeWarning, no exception)
np_remainder_float(x, days) ==
    IF x.nan \/ days = 0 THEN NaN ELSE Float24(x.val % (days * HOURS_PER_DAY))

\* numpy comparisons of a float element with a whole number of days: False on NaN
np_less(x, days) == ~x.nan /\ x.val < days * HOURS_PER_DAY

np_greater_equal(x, days) == ~x.nan /\ x.val >= days * HOURS_PER_DAY

Impls == {"core", "legacy"}

SeasonConfigs ==
    [days : 0..MaxSeasonDays, wet_days : 0..MaxSeasonLen,
     dry_days : 0..MaxSeasonLen, badtide_days : 0..MaxSeasonLen]

cycle_length_days(cfg) ==
    cfg.wet_days + cfg.dry_days + cfg.wet_days + cfg.badtide_days

\* mutant of water_active_core: the wheels stand still in the badtide too
water_active_core_wet_only(cfg, h) ==
    LET hours_per_wet == cfg.wet_days * HOURS_PER_DAY
        hours_per_dry == cfg.dry_days * HOURS_PER_DAY
        hours_per_badtide == cfg.badtide_days * HOURS_PER_DAY
        cycle_length_hours == 2 * hours_per_wet + hours_per_dry + hours_per_badtide
        hour_of_cycle == np_remainder_int(h, cycle_length_hours)
        is_first_wet == hour_of_cycle < hours_per_wet
        is_second_wet == (hour_of_cycle >= (hours_per_wet + hours_per_dry))
                         /\ (hour_of_cycle < (2 * hours_per_wet + hours_per_dry))
    IN is_first_wet \/ is_second_wet

\* core.py: the schedule in whole hours of the cycle
water_active_core(cfg, h) ==
    LET hours_per_wet == cfg.wet_days * HOURS_PER_DAY
        hours_per_dry == cfg.dry_days * HOURS_PER_DAY
        hours_per_badtide == cfg.badtide_days * HOURS_PER_DAY
        cycle_length_hours == 2 * hours_per_wet + hours_per_dry + hours_per_badtide
        hour_of_cycle == np_remainder_int(h, cycle_length_hours)
        is_first_wet == hour_of_cycle < hours_per_wet
        is_second_wet == (hour_of_cycle >= (hours_per_wet + hours_per_dry))
                         /\ (hour_of_cycle < (2 * hours_per_wet + hours_per_dry))
        is_badtide == hour_of_cycle >= (2 * hours_per_wet + hours_per_dry)
    IN is_first_wet \/ is_second_wet \/ is_badtide

\* simulation.py: the schedule in (fractional) days of the cycle
water_active_legacy(cfg, h) ==
    LET time_days == Float24(h)
        day_of_cycle == np_remainder_float(time_days, cycle_length_days(cfg))
        is_first_wet == np_less(day_of_cycle, cfg.wet_days)
        is_second_wet == np_greater_equal(day_of_cycle, cfg.wet_days + cfg.dry_days)
                         /\ np_less(day_of_cycle, 2 * cfg.wet_days + cfg.dry_days)
        is_badtide == np_greater_equal(day_of_cycle, 2 * cfg.wet_days + cfg.dry_days)
    IN is_first_wet \/ is_second_wet \/ is_badtide

\* mutant of season_schedule: the remainder taken as a Python scalar `%`,
\* which raises on a zero divisor
season_schedule_scalar_mod(impl, cfg) ==
    IF cycle_length_days(cfg) = 0
    THEN [raised |-> "ZeroDivisionError", is_water_active |-> <<>>]
    ELSE [raised |-> "none",
          is_water_active |->
              [k \in 1..(cfg.days * HOURS_PER_DAY) |->
                  IF impl = "core" THEN water_active_core(cfg, k - 1)
                                   ELSE water_active_legacy(cfg, k - 1)]]

\* The is_water_active array over time_hours = arange(days * 24), as the
\* vectorised expressions of either implementation compute it.
season_schedule(impl, cfg) ==
    [raised |-> "none",
     is_water_active |->
         [k \in 1..(cfg.days * HOURS_PER_DAY) |->
             IF impl = "core" THEN water_active_core(cfg, k - 1)
                              ELSE water_active_legacy(cfg, k - 1)]]

\* ----------------------------------------------------------- RNG streams

\* A numpy Generator: the root seed it descends from, the index of the child
\* stream spawned for it, and the number of raw draws taken so far.
NoGenerator == [seed |-> 0, child |-> 0, pos |-> 0]

\* The raw output at the generator's position: a fixed function of (seed,
\* child stream, position), as for any seeded PRNG.
rng_raw(g) ==
    (g.seed * 131 + g.child * 977 + g.pos * 389
        + g.child * g.pos * 61 + g.pos * g.pos * 17) % 1009

rng_advance(g, n) == [g EXCEPT !.pos = @ + n]

\* _rng.integers(low, high): uniform integer in [low, high)
rng_integers(g, low, high) == low + (rng_raw(g) % (high - low))

STRENGTH_SCALE == 200

\* _rng.random(): uniform real in [0, 1), as the midpoint of its hundredth
rng_random(g) == 2 * (rng_raw(g) % 100) + 1

\* ------------------------------------------------------------ wind process

WIND_DURATION_MIN_HOURS == 5
WIND_DURATION_MAX_HOURS == 13
\* 0.20 and 0.30, in 200ths
LARGE_WINDMILL_THRESHOLD == 40
WINDMILL_THRESHOLD == 60

Repeat(value, count) == [k \in 1..count |-> value]

Prefix(arr, n) == SubSeq(arr, 1, Min(Len(arr), n))

\* simulation.py: draw (duration, strength) segments until the horizon is covered
RECURSIVE wind_until_covered(_, _, _, _)
wind_until_covered(g, curr_h, horizon, wind_strength) ==
    IF curr_h < horizon
    THEN LET duration == rng_integers(g, WIND_DURATION_MIN_HOURS, WIND_DURATION_MAX_HOURS)
             strength == rng_random(rng_advance(g, 1))
         IN wind_until_covered(rng_advance(g, 2), curr_h + duration, horizon,
                               wind_strength \o Repeat(strength, duration))
    ELSE [wind_strength |-> Prefix(wind_strength, horizon), rng |-> g]

RECURSIVE np_repeat(_, _)
np_repeat(values, counts) ==
    IF values = <<>> THEN <<>>
    ELSE Repeat(values[1], counts[1]) \o np_repeat(Tail(values), Tail(counts))

\* mutant of wind_vectorised: segments of 1 hour and more
wind_vectorised_short_segments(g, horizon) ==
    LET max_segments == horizon + 1
        wind_durations ==
            [k \in 1..max_segments |->
                rng_integers(rng_advance(g, k - 1), 1, WIND_DURATION_MAX_HOURS)]
        wind_strengths ==
            [k \in 1..max_segments |-> rng_random(rng_advance(g, max_segments + k - 1))]
    IN [wind_strength |-> Prefix(np_repeat(wind_strengths, wind_durations), horizon),
        rng |-> rng_advance(g, 2 * max_segments)]

\* core.py: max_segments durations, then max_segments strengths, expanded
\* with np.repeat and cut to the horizon
wind_vectorised(g, horizon) ==
    LET max_segments == (horizon \div WIND_DURATION_MIN_HOURS) + 1
        wind_durations ==
            [k \in 1..max_segments |->
                rng_integers(rng_advance(g, k - 1),
                             WIND_DURATION_MIN_HOURS, WIND_DURATION_MAX_HOURS)]
        wind_strengths ==
            [k \in 1..max_segments |-> rng_random(rng_advance(g, max_segments + k - 1))]
    IN [wind_strength |-> Prefix(np_repeat(wind_strengths, wind_durations), horizon),
        rng |-> rng_advance(g, 2 * max_segments)]

\* mutant of wind_unit_prod: the tier produces at any strength
wind_unit_prod_no_threshold(strength, threshold, power) == strength * power

\* per-unit production of a wind tier at a strength (200ths of hp)
wind_unit_prod(strength, threshold, power) ==
    IF strength > threshold THEN strength * power ELSE 0

\* --------------------------------------------------------- sample pipeline

NoParams ==
    [days |-> 0, working_hours |-> 0, wet_days |-> 0, dry_days |-> 0,
     badtide_days |-> 0,
     factories |-> [lumber_mill |-> 0, wood_workshop |-> 0],
     energy_mix |-> [power_wheel |-> 0, water_wheel |-> 0, large_windmill |-> 0,
                     windmill |-> 0, battery |-> 0, battery_height |-> 0]]

NoData ==
    [power_production |-> <<>>, power_consumption |-> <<>>, power_surplus |-> <<>>,
     effective_balance |-> <<>>, battery_charge |-> <<>>,
     energy_production |-> <<>>, energy_consumption |-> <<>>,
     wind_strength |-> <<>>, total_battery_capacity |-> 0, total_cost |-> 0]

total_consumption_rate(factories) ==
    factories.lumber_mill * FACTORY_DATABASE.lumber_mill.power
    + factories.wood_workshop * FACTORY_DATABASE.wood_workshop.power

\* mutant of calculate_total_cost: the battery cost taken without its height term
calculate_total_cost_flat_battery(energy_mix) ==
    (energy_mix.power_wheel * PRODUCER_DATABASE.power_wheel.cost)
    + (energy_mix.water_wheel * PRODUCER_DATABASE.water_wheel.cost)
    + (energy_mix.large_windmill * PRODUCER_DATABASE.large_windmill.cost)
    + (energy_mix.windmill * PRODUCER_DATABASE.windmill.cost)
    + (energy_mix.battery * GRAVITY_BATTERY.base_cost)

\* helpers.py calculate_total_cost, and the same sum inline in simulate_scenario
calculate_total_cost(energy_mix) ==
    (energy_mix.power_wheel * PRODUCER_DATABASE.power_wheel.cost)
    + (energy_mix.water_wheel * PRODUCER_DATABASE.water_wheel.cost)
    + (energy_mix.large_windmill * PRODUCER_DATABASE.large_windmill.cost)
    + (energy_mix.windmill * PRODUCER_DATABASE.windmill.cost)
    + (energy_mix.battery * battery_cost(energy_mix.battery_height))

\* mutant of is_working_hour: every hour taken as a working hour
is_working_hour_always(params, h) == (h % HOURS_PER_DAY) < HOURS_PER_DAY

is_working_hour(params, h) == (h % HOURS_PER_DAY) < params.working_hours

\* the whole fold over a surplus series: the battery_charge and
\* effective_balance arrays
RECURSIVE battery_fold(_, _, _, _, _)
battery_fold(surplus, capacity, i, charge, acc) ==
    IF i > Len(surplus) THEN acc
    ELSE LET step == battery_fold_step(charge, surplus[i], capacity)
         IN battery_fold(surplus, capacity, i + 1, step.charge,
                [battery_charge |-> Append(acc.battery_charge, step.charge),
                 effective_balance |-> Append(acc.effective_balance, step.balance)])

RECURSIVE np_cumsum_from(_, _, _, _)
np_cumsum_from(arr, i, running, acc) ==
    IF i > Len(arr) THEN acc
    ELSE np_cumsum_from(arr, i + 1, running + arr[i], Append(acc, running + arr[i]))

\* mutant of np_cumsum: the running sum before each entry
np_cumsum_lagging(arr) ==
    IF arr = <<>> THEN <<>>
    ELSE <<0>> \o np_cumsum_from(SubSeq(arr, 1, Len(arr) - 1), 1, 0, <<>>)

np_cumsum(arr) == np_cumsum_from(arr, 1, 0, <<>>)

\* hourly wind production of the mix at the hour's strength
wind_production(energy_mix, strength) ==
    (energy_mix.large_windmill
        * wind_unit_prod(strength, LARGE_WINDMILL_THRESHOLD,
                         PRODUCER_DATABASE.large_windmill.power))
    + (energy_mix.windmill
        * wind_unit_prod(strength, WINDMILL_THRESHOLD, PRODUCER_DATABASE.windmill.power))

\* The arrays of a sample from its base (hydro + power wheel) production, its
\* wind strengths and its consumption: production, surplus, fold, energies.
sample_arrays(params, water_active, wind_strength) ==
    LET em == params.energy_mix
        horizon == params.days * HOURS_PER_DAY
        consumption_rate == total_consumption_rate(params.factories) * STRENGTH_SCALE
        water_wheel_production_rate ==
            em.water_wheel * PRODUCER_DATABASE.water_wheel.power * STRENGTH_SCALE
        power_wheel_rate ==
            em.power_wheel * PRODUCER_DATABASE.power_wheel.power * STRENGTH_SCALE
        power_consumption ==
            [k \in 1..horizon |->
                IF is_working_hour(params, k - 1) THEN consumption_rate ELSE 0]
        power_production ==
            [k \in 1..horizon |->
                (IF water_active[k] THEN water_wheel_production_rate ELSE 0)
                + wind_production(em, wind_strength[k])
                + (IF is_working_hour(params, k - 1) THEN power_wheel_rate ELSE 0)]
        power_surplus_arr ==
            [k \in 1..horizon |-> power_production[k] - power_consumption[k]]
        capacity == calculate_total_battery_capacity(em) * STRENGTH_SCALE
        fold == battery_fold(power_surplus_arr, capacity, 1, initial_charge(capacity),
                             [battery_charge |-> <<>>, effective_balance |-> <<>>])
    IN [power_production |-> power_production,
        power_consumption |-> power_consumption,
        power_surplus |-> power_surplus_arr,
        effective_balance |-> fold.effective_balance,
        battery_charge |-> fold.battery_charge,
        energy_production |-> np_cumsum(power_production),
        energy_consumption |-> np_cumsum(power_consumption),
        wind_strength |-> wind_strength,
        total_battery_capacity |-> capacity,
        total_cost |-> calculate_total_cost(em)]

\* helpers.py calculate_power_consumption_profile(config)
calculate_power_consumption_profile(params) ==
    [k \in 1..(params.days * HOURS_PER_DAY) |->
        IF (k - 1) % HOURS_PER_DAY < params.working_hours
        THEN total_consumption_rate(params.factories) * STRENGTH_SCALE ELSE 0]

\* mutant of create_simulation_figure: the first hour is taken against an
\* empty battery
create_simulation_figure_from_empty(data, params) ==
    LET battery_charge_arr == data.battery_charge
        power_surplus_arr ==
            [k \in DOMAIN data.power_production |->
                data.power_production[k]
                - calculate_power_consumption_profile(params)[k]]
    IN IF battery_charge_arr = <<>>
       THEN [raised |-> "IndexError", effective_balance |-> <<>>]
       ELSE [raised |-> "none",
             effective_balance |->
                 [k \in DOMAIN battery_charge_arr |->
                     power_surplus_arr[k]
                     - (battery_charge_arr[k]
                        - (IF k = 1 THEN 0 ELSE battery_charge_arr[k - 1]))]]

\* plots/canvas.py create_simulation_figure, the derived values: the surplus
\* from the production and the consumption profile, battery_charge_shifted
\* (whose first entry is set even on an empty horizon, which raises),
\* delta_charge and effective_balance
create_simulation_figure(data, params) ==
    LET battery_charge_arr == data.battery_charge
        power_surplus_arr ==
            [k \in DOMAIN data.power_production |->
                data.power_production[k]
                - calculate_power_consumption_profile(params)[k]]
        total_battery_capacity ==
            calculate_total_battery_capacity(params.energy_mix) * STRENGTH_SCALE
    IN IF battery_charge_arr = <<>>
       THEN [raised |-> "IndexError", effective_balance |-> <<>>]
       ELSE LET battery_charge_shifted ==
                    [k \in DOMAIN battery_charge_arr |->
                        IF k = 1 THEN total_battery_capacity \div 2
                        ELSE battery_charge_arr[k - 1]]
                delta_charge ==
                    [k \in DOMAIN battery_charge_arr |->
                        battery_charge_arr[k] - battery_charge_shifted[k]]
            IN [raised |-> "none",
                effective_balance |->
                    [k \in DOMAIN battery_charge_arr |->
                        power_surplus_arr[k] - delta_charge[k]]]

\* simulation.py simulate_scenario(params, _rng): the result and the
\* generator as the sample leaves it
simulate_scenario(params, g) ==
    LET wind == wind_until_covered(g, 0, params.days * HOURS_PER_DAY, <<>>)
        active == season_schedule("legacy", params).is_water_active
    IN [data |-> sample_arrays(params, active, wind.wind_strength), rng |-> wind.rng]

\* core.py: the static profiles of jit_parallel_simulation and one
\* jit_stochastic_simulation on them
jit_stochastic_simulation(params, g) ==
    LET wind == wind_vectorised(g, params.days * HOURS_PER_DAY)
        active == season_schedule("core", params).is_water_active
    IN [data |-> sample_arrays(params, active, wind.wind_strength), rng |-> wind.rng]

\* simulation.py run_simulation_task: (hours_empty, data)
run_simulation_task(params, g) ==
    LET res == simulate_scenario(params, g)
    IN [hours_empty |-> CountNonPositive(res.data.battery_charge),
        data |-> res.data, rng |-> res.rng]

\* core.py jit_parallel_simulation, body of the prange loop for one sample
core_sample(params, g) ==
    LET res == jit_stochastic_simulation(params, g)
    IN [hours_empty |-> CountNonPositive(res.data.battery_charge),
        final_surplus |-> SeqSum(res.data.power_production)
                          - SeqSum(res.data.power_consumption),
        data |-> res.data, rng |-> res.rng]

\* src/src/main.py, the single-run branch: the count leaves out the first day
legacy_single_run(params, g) ==
    LET res == simulate_scenario(params, g)
        battery_after_day1 ==
            SubSeq(res.data.battery_charge, HOURS_PER_DAY + 1,
                   Len(res.data.battery_charge))
    IN [hours_empty |-> CountNonPositive(battery_after_day1),
        data |-> res.data, rng |-> res.rng]

\* ------------------------------------------------------ Monte-Carlo drivers

\* RNGService.get_generator after n earlier calls: _main_rng.spawn(1)[0], the
\* n-th child stream of the root seed, at its start
get_generator(seed, n) == [seed |-> seed, child |-> n, pos |-> 0]

\* a submitted batch of run_simulation_batch, or a numba worker thread
NewBatch(count, g, pc) ==
    [count |-> count, done |-> 0, pc |-> pc, rng |-> g, results |-> <<>>]

\* mutant of make_batches: the remainder is not handed out
make_batches_no_remainder(samples, workers) ==
    LET chunk_size == samples \div workers
        counts == [i \in 1..workers |-> chunk_size]
    IN SelectSeq(counts, LAMBDA count : count > 0)

\* run_visualization: chunk_size, remainder and the batches with count > 0
make_batches(samples, workers) ==
    LET chunk_size == samples \div workers
        remainder == samples % workers
        counts == [i \in 1..workers |->
                      chunk_size + (IF i - 1 < remainder THEN 1 ELSE 0)]
    IN SelectSeq(counts, LAMBDA count : count > 0)

\* what a driver keeps of a sample: (hours_empty, data), the data with the
\* fields the drivers read
sample_result(task) ==
    [hours_empty |-> task.hours_empty,
     data |-> [battery_charge |-> task.data.battery_charge,
               energy_production |-> task.data.energy_production,
               energy_consumption |-> task.data.energy_consumption,
               total_cost |-> task.data.total_cost]]

\* run_visualization: the loop over one batch's results, folding
\* run_empty_hours, max_hours_empty and worst_run_data
RECURSIVE collect_results(_, _, _)
collect_results(batch_results, i, acc) ==
    IF i > Len(batch_results) THEN acc
    ELSE LET r == batch_results[i]
             worse == r.hours_empty > acc.max_hours_empty
         IN collect_results(batch_results, i + 1,
                [run_empty_hours |-> Append(acc.run_empty_hours, r.hours_empty),
                 max_hours_empty |-> IF worse THEN r.hours_empty
                                     ELSE acc.max_hours_empty,
                 worst_run_data |-> IF worse \/ acc.worst_run_data = <<>>
                                    THEN <<r.data>> ELSE acc.worst_run_data])

PERCENTILE_SCALE == 100

\* np.percentile(values, 95) of a non-empty list, linear interpolation, in
\* hundredths
np_percentile_95(values) ==
    LET n == Len(values)
        sorted == SortSeq(values, LAMBDA a, b : a < b)
        rank == 95 * (n - 1)
        lower == (rank \div 100) + 1
        upper == Min(lower + 1, n)
    IN (PERCENTILE_SCALE * sorted[lower])
       + ((rank % 100) * (sorted[upper] - sorted[lower]))

\* np.mean of a non-empty list, rounded down
np_mean(values) == SeqSum(values) \div Len(values)

\* np.argmax: the first index of the maximum (0-based)
np_argmax(values) ==
    (CHOOSE i \in 1..Len(values) :
        /\ \A j \in 1..Len(values) : values[j] <= values[i]
        /\ \A j \in 1..(i - 1) : values[j] < values[i]) - 1

\* evaluate_config after run_simulation_batch: the OptimizationResult, or the
\* exception of the first failing subscript
evaluate_aggregate(mix_params, batch_results, horizon) ==
    IF batch_results = <<>> \/ horizon = 0
    THEN [raised |-> "IndexError", result |-> <<>>]
    ELSE LET hours_empty_list ==
                 [i \in 1..Len(batch_results) |-> batch_results[i].hours_empty]
             surpluses ==
                 [i \in 1..Len(batch_results) |->
                     LET data == batch_results[i].data
                     IN data.energy_production[Len(data.energy_production)]
                        - data.energy_consumption[Len(data.energy_consumption)]]
         IN [raised |-> "none",
             result |-> <<[params |-> mix_params,
                           cost |-> batch_results[1].data.total_cost,
                           p95_hours_empty |-> np_percentile_95(hours_empty_list),
                           total_hours |-> horizon,
                           energy_surplus |-> np_mean(surpluses)]>>]

\* jit_parallel_simulation after the prange loop and run_simulation's
\* SimulationResult, or the exception of argmax on an empty array
core_aggregate(hours_empty_results, surpluses) ==
    IF hours_empty_results = <<>>
    THEN [raised |-> "ValueError", result |-> <<>>]
    ELSE [raised |-> "none",
          result |-> <<[hours_empty_results |-> hours_empty_results,
                        worst_idx |-> np_argmax(hours_empty_results),
                        average_final_surplus |-> np_mean(surpluses)]>>]

SameMultiset(a, b) ==
    /\ Len(a) = Len(b)
    /\ \A i \in 1..Len(a) :
          Cardinality({j \in 1..Len(a) : a[j] = a[i]})
              = Cardinality({j \in 1..Len(b) : b[j] = a[i]})

\* ------------------------------------------------------------- optimizer

\* OptimizationResult.p95_empty_percent > bound, on the exact quotient
\* (p95_hours_empty / total_hours) * 100, which is 0 on an empty horizon;
\* p95_hours_empty is kept in hundredths of an hour
p95_empty_percent_exceeds(result, bound) ==
    IF result.total_hours > 0
    THEN result.p95_hours_empty * 100 > bound * result.total_hours * PERCENTILE_SCALE
    ELSE 0 > bound

\* mutant of is_valid: the energy surplus is not looked at
is_valid_reliability_only(result) == ~p95_empty_percent_exceeds(result, 5)

\* OptimizationResult.is_valid
is_valid(result) ==
    ~p95_empty_percent_exceeds(result, 5) /\ result.energy_surplus >= 0

\* 1e9, the unit the penalties of calculate_score are counted in
GIGA == 1000000000

\* A score is the real number giga * 1e9 + num / den with num / den < 1e9:
\* the whole gigas of a sum are carried into giga.
score_of(gigas, num, den) ==
    LET carry == (num \div den) \div GIGA
    IN [giga |-> gigas + carry, num |-> num - ((carry * GIGA) * den), den |-> den]

\* a < b on scores
score_less(a, b) ==
    \/ a.giga < b.giga
    \/ a.giga = b.giga /\ a.num * b.den < b.num * a.den

\* mutant of calculate_score: the deficit penalty no larger than the
\* reliability penalty
calculate_score_one_penalty(result) ==
    IF result.energy_surplus < 0
    THEN score_of(1, -result.energy_surplus, STRENGTH_SCALE)
    ELSE IF p95_empty_percent_exceeds(result, 5)
    THEN score_of(1, result.p95_hours_empty * 100,
                  Max(result.total_hours, 1) * PERCENTILE_SCALE)
    ELSE score_of(0, result.cost, 1)

\* OptimizationResult.calculate_score: 1e12 + abs(energy_surplus), else
\* 1e9 + p95_empty_percent, else cost; energy_surplus is kept in 200ths and
\* p95_hours_empty in hundredths
calculate_score(result) ==
    IF result.energy_surplus < 0
    THEN score_of(1000, -result.energy_surplus, STRENGTH_SCALE)
    ELSE IF p95_empty_percent_exceeds(result, 5)
    THEN score_of(1, result.p95_hours_empty * 100,
                  Max(result.total_hours, 1) * PERCENTILE_SCALE)
    ELSE score_of(0, result.cost, 1)

\* optimize: the bounds used when the caller gives none
DEFAULT_BOUNDS ==
    [power_wheel |-> <<0, 20>>, water_wheel |-> <<0, 20>>,
     large_windmills |-> <<0, 30>>, windmills |-> <<0, 30>>,
     batteries |-> <<0, 20>>, battery_height |-> <<1, 20>>]

\* bounds.get(name, default)
bounds_get(bounds, name, default) ==
    IF name \in DOMAIN bounds THEN bounds[name] ELSE default

\* get_random_params.get_val
get_val(bounds, name, g) ==
    LET bound == bounds_get(bounds, name, <<0, 0>>)
    IN rng_integers(g, bound[1], bound[2] + 1)

\* get_random_params: the six draws in the order of the constructor call
get_random_params(bounds, g) ==
    [params |->
        [power_wheel |-> get_val(bounds, "power_wheel", g),
         water_wheel |-> get_val(bounds, "water_wheel", rng_advance(g, 1)),
         large_windmill |-> get_val(bounds, "large_windmills", rng_advance(g, 2)),
         windmill |-> get_val(bounds, "windmills", rng_advance(g, 3)),
         battery |-> get_val(bounds, "batteries", rng_advance(g, 4)),
         battery_height |-> get_val(bounds, "battery_height", rng_advance(g, 5))],
     rng |-> rng_advance(g, 6)]

PRODUCER_FIELDS == <<"power_wheel", "water_wheel", "large_windmills", "windmills">>

\* mutate_params: the fields it may pick in deficit, and otherwise
mutation_fields(result) ==
    IF result.energy_surplus < 0 THEN PRODUCER_FIELDS
    ELSE PRODUCER_FIELDS \o <<"batteries", "battery_height">>

\* mutant of mutate_params: the new value is not clamped to the bound
mutate_params_unclamped(result, bounds, g) ==
    LET deficit == result.energy_surplus < 0
        unreliable == p95_empty_percent_exceeds(result, 5)
        bias == IF deficit \/ unreliable THEN 1 ELSE -1
        prob_bias == IF deficit THEN (9 * STRENGTH_SCALE) \div 10
                     ELSE (8 * STRENGTH_SCALE) \div 10
        fields == mutation_fields(result)
        field == fields[rng_integers(g, 0, Len(fields)) + 1]
        change == IF rng_random(rng_advance(g, 1)) < prob_bias THEN bias ELSE -bias
        rng_after == rng_advance(g, 2)
    IN IF field \notin DOMAIN result.params
       THEN [raised |-> "AttributeError", params |-> <<>>, field |-> field,
             rng |-> rng_after]
       ELSE [raised |-> "none",
             params |-> <<[result.params EXCEPT ![field] = @ + change]>>,
             field |-> field, rng |-> rng_after]

\* mutate_params: _rng.choice(fields), _rng.random() < prob_bias, getattr,
\* the clamp and setattr.  getattr raises AttributeError on a name that is
\* no field of the params.
mutate_params(result, bounds, g) ==
    LET deficit == result.energy_surplus < 0
        unreliable == p95_empty_percent_exceeds(result, 5)
        bias == IF deficit \/ unreliable THEN 1 ELSE -1
        prob_bias == IF deficit THEN (9 * STRENGTH_SCALE) \div 10
                     ELSE (8 * STRENGTH_SCALE) \div 10
        fields == mutation_fields(result)
        field == fields[rng_integers(g, 0, Len(fields)) + 1]
        change == IF rng_random(rng_advance(g, 1)) < prob_bias THEN bias ELSE -bias
        rng_after == rng_advance(g, 2)
    IN IF field \notin DOMAIN result.params
       THEN [raised |-> "AttributeError", params |-> <<>>, field |-> field,
             rng |-> rng_after]
       ELSE LET current_val == result.params[field]
                bound == bounds_get(bounds, field, <<0, 100>>)
                new_val == Max(bound[1], Min(current_val + change, bound[2]))
            IN [raised |-> "none",
                params |-> <<[result.params EXCEPT ![field] = new_val]>>,
                field |-> field, rng |-> rng_after]

\* run_simulation_batch on the Generator it was given by the service:
\* `samples` tasks, one after the other on that Generator
RECURSIVE run_simulation_batch(_, _, _, _)
run_simulation_batch(params, samples, g, results) ==
    IF samples <= 0 THEN results
    ELSE LET task == run_simulation_task(params, g)
         IN run_simulation_batch(params, samples - 1, task.rng,
                                 Append(results, sample_result(task)))

\* evaluate_config, with the Generator its run_simulation_batch is given
evaluate_config(base_params, mix_params, samples_per_config, horizon, g) ==
    LET current_params == [base_params EXCEPT !.energy_mix = mix_params]
        batch_results == run_simulation_batch(current_params, samples_per_config,
                                              g, <<>>)
    IN evaluate_aggregate(mix_params, batch_results, horizon)

\* A worker process's objects: `memory` is the sequence of the objects it
\* holds, a reference is an index into it; a SimulationParams object holds
\* the reference of its EnergyMixParams in energy_mix.

\* mutant of model_copy: the object itself is handed back
model_copy_alias(memory, ref) == [memory |-> memory, ref |-> ref]

\* BaseModel.model_copy(deep=True): a new object, and a new object for the
\* energy mix it refers to
model_copy(memory, ref) ==
    LET object == memory[ref]
    IN IF "energy_mix" \in DOMAIN object
       THEN [memory |-> memory \o <<memory[object.energy_mix],
                                    [object EXCEPT !.energy_mix = Len(memory) + 1]>>,
             ref |-> Len(memory) + 2]
       ELSE [memory |-> Append(memory, object), ref |-> Len(memory) + 1]

\* mutate_params on the objects: new_params = params.model_copy(deep=True),
\* getattr and setattr on new_params, which is returned
mutate_params_objects(memory, result, params_ref, bounds, g) ==
    LET copied == model_copy(memory, params_ref)
        mutation == mutate_params([result EXCEPT !.params = copied.memory[copied.ref]],
                                  bounds, g)
    IN [mutation |-> mutation,
        ref |-> copied.ref,
        memory |-> IF mutation.raised # "none" THEN copied.memory
                   ELSE [copied.memory EXCEPT
                            ![copied.ref][mutation.field] =
                                mutation.params[1][mutation.field]]]

\* evaluate_config on the objects: current_params =
\* base_params.model_copy(deep=True), current_params.energy_mix = mix_params,
\* and the evaluation of current_params
evaluate_config_objects(memory, base_ref, mix_ref, samples_per_config, horizon, g) ==
    LET copied == model_copy(memory, base_ref)
        assigned == [copied.memory EXCEPT ![copied.ref].energy_mix = mix_ref]
        current_params == [assigned[copied.ref] EXCEPT !.energy_mix = assigned[mix_ref]]
    IN [memory |-> assigned,
        evaluated |-> evaluate_config(current_params, assigned[mix_ref],
                                      samples_per_config, horizon, g)]

\* mutant of improves: every candidate replaces the incumbent
improves_always(candidate_result, current_result) == TRUE

\* optimization_worker: candidate_result.calculate_score() <
\* current_result.calculate_score()
improves(candidate_result, current_result) ==
    score_less(calculate_score(candidate_result), calculate_score(current_result))

\* mutant of min_by_score: the first result of the round
min_by_score_first(results) == results[1]

\* min(round_results, key=calculate_score): the first result of minimal score
min_by_score(results) ==
    results[CHOOSE i \in 1..Len(results) :
                /\ \A j \in 1..Len(results) :
                       ~score_less(calculate_score(results[j]),
                                   calculate_score(results[i]))
                /\ \A j \in 1..(i - 1) :
                       score_less(calculate_score(results[i]),
                                  calculate_score(results[j]))]

\* the key find_optimal_solutions builds from a solution's params
params_key(p) ==
    <<p.power_wheel, p.water_wheel, p.large_windmill, p.windmill, p.battery,
      p.battery_height>>

\* [r for r in results if r.is_valid]
valid_results(results) ==
    LET F[i \in 0..Len(results)] ==
            IF i = 0 THEN <<>>
            ELSE IF is_valid(results[i]) THEN Append(F[i - 1], results[i])
                 ELSE F[i - 1]
    IN F[Len(results)]

\* list.sort(key=cost): a stable sort, as insertion behind the entries of
\* lower or equal cost
insert_by_cost(sorted, x) ==
    LET n == Cardinality({i \in 1..Len(sorted) : sorted[i].cost <= x.cost})
    IN SubSeq(sorted, 1, n) \o <<x>> \o SubSeq(sorted, n + 1, Len(sorted))

RECURSIVE sort_by_cost_from(_, _, _)
sort_by_cost_from(seq, i, sorted) ==
    IF i > Len(seq) THEN sorted
    ELSE sort_by_cost_from(seq, i + 1, insert_by_cost(sorted, seq[i]))

sort_by_cost(seq) == sort_by_cost_from(seq, 1, <<>>)

\* the loop over valid_solutions with its seen_params set
RECURSIVE unique_by_params(_, _, _, _)
unique_by_params(solutions, i, seen_params, unique_solutions) ==
    IF i > Len(solutions) THEN unique_solutions
    ELSE LET key == params_key(solutions[i].params)
         IN IF key \notin seen_params
            THEN unique_by_params(solutions, i + 1, seen_params \cup {key},
                                  Append(unique_solutions, solutions[i]))
            ELSE unique_by_params(solutions, i + 1, seen_params, unique_solutions)

\* mutant of find_optimal_solutions: the sort by cost left out
find_optimal_solutions_unsorted(results, max_empty_percent) ==
    unique_by_params(valid_results(results), 1, {}, <<>>)

find_optimal_solutions(results, max_empty_percent) ==
    LET valid_solutions == valid_results(results)
    IN unique_by_params(sort_by_cost(valid_solutions), 1, {}, <<>>)

\* ------------------------------------------- the groups a specification idles

Runs == {1, 2}

FoldIdle ==
    /\ fold_mix = [r \in Runs |-> [battery |-> 0, battery_height |-> 0]]
    /\ total_hours = 0
    /\ power_surplus = <<>>
    /\ fold_i = 0
    /\ current_charge = [r \in Runs |-> 0]
    /\ battery_charge = [r \in Runs |-> <<>>]
    /\ effective_balance = [r \in Runs |-> <<>>]

BoundariesIdle ==
    /\ boundaries_impl = "none"
    /\ curr_day = 0
    /\ season_boundaries = <<>>
    /\ boundaries_pc = "idle"

SeasonIdle ==
    /\ season_cfg = [days |-> 0, wet_days |-> 0, dry_days |-> 0, badtide_days |-> 0]
    /\ season_done = {}
    /\ season_raised = [m \in Impls |-> "none"]
    /\ is_water_active = [m \in Impls |-> <<>>]
    /\ BoundariesIdle

SampleIdle ==
    /\ sample_params = NoParams
    /\ sample_path = "none"
    /\ sample_rng = NoGenerator
    /\ sample_pc = "idle"
    /\ sample_hours_empty = 0
    /\ sample_data = NoData

OptIdle ==
    /\ history = <<>>
    /\ optimal_solutions = <<>>
    /\ opt_pc = "idle"
    /\ given_max_empty_percent = 0

SearchIdle ==
    /\ search_args = <<>>
    /\ streams_spawned = 0
    /\ start_params_list = <<>>
    /\ walkers = <<>>
    /\ round_num = 0
    /\ best_result = <<>>
    /\ best_valid_result = <<>>
    /\ search_history = <<>>
    /\ returned_results = <<>>
    /\ search_pc = "done"
    /\ search_raised = "none"

BatchIdle ==
    /\ entry = "none"
    /\ drv_params = NoParams
    /\ n_samples = 0
    /\ num_workers = 0
    /\ root_seed = 0
    /\ n_children_spawned = 0
    /\ batches = <<>>
    /\ run_empty_hours = <<>>
    /\ final_surpluses = <<>>
    /\ max_hours_empty = -1
    /\ worst_run_data = <<>>
    /\ aggregate = <<>>
    /\ drv_raised = "none"
    /\ drv_pc = "idle"
    /\ run_no = 0
    /\ first_run = <<>>
    /\ issued_streams = <<>>
    /\ sample_streams = <<>>

\* ---------------------------------------------------------------- SpecFold

BatteryMixes ==
    [battery : 0..MaxBattery, battery_height : 0..MaxBatteryHeight]

\* hourly surplus values (hp): deficits and surpluses below and above the
\* capacities in range, and the zero surplus
SurplusValues == {-9000, -1000, 0, 1000, 9000}

fold_capacity(r) == calculate_total_battery_capacity(fold_mix[r])

FoldInit ==
    /\ fold_mix \in [Runs -> BatteryMixes]
    \* run 2 is run 1 with a larger battery count and/or a larger height
    /\ fold_mix[2].battery >= fold_mix[1].battery
    /\ fold_mix[2].battery_height >= fold_mix[1].battery_height
    /\ fold_mix[2] # fold_mix[1]
    /\ total_hours \in 0..MaxFoldHours
    /\ power_surplus = <<>>
    /\ fold_i = 0
    /\ current_charge = [r \in Runs |-> initial_charge(fold_capacity(r))]
    /\ battery_charge = [r \in Runs |-> <<>>]
    /\ effective_balance = [r \in Runs |-> <<>>]
    /\ SeasonIdle /\ SampleIdle /\ OptIdle /\ BatchIdle /\ SearchIdle

\* Loop body for hour fold_i, in both runs, on the same surplus of that hour.
FoldHour ==
    /\ fold_i < total_hours
    /\ \E surplus \in SurplusValues :
         LET step(r) == battery_fold_step(current_charge[r], surplus, fold_capacity(r))
         IN /\ power_surplus' = Append(power_surplus, surplus)
            /\ current_charge' = [r \in Runs |-> step(r).charge]
            /\ battery_charge' =
                 [r \in Runs |-> Append(battery_charge[r], step(r).charge)]
            /\ effective_balance' =
                 [r \in Runs |-> Append(effective_balance[r], step(r).balance)]
    /\ fold_i' = fold_i + 1
    /\ UNCHANGED <<fold_mix, total_hours>>
    /\ UNCHANGED <<seasonVars, sampleVars, optVars, batchVars, searchVars>>

FoldNext == FoldHour

SpecFold == FoldInit /\ [][FoldNext]_vars

FoldDone == fold_i = total_hours

\* np.sum(battery_charge <= 0) of a run
fold_hours_empty(r) == CountNonPositive(battery_charge[r])

\* C1: at every hour of every run the recorded battery charge lies in
\* [0, total_battery_capacity], zero capacity included, whatever the surplus series.
C1_ChargeWithinCapacity ==
    \A r \in Runs : \A h \in 1..Len(battery_charge[r]) :
        /\ 0 <= battery_charge[r][h]
        /\ battery_charge[r][h] <= fold_capacity(r)

\* a finished fold of a real battery that was both filled to the brim with
\* surplus curtailed and drained to zero with deficit unmet
C1_Witness ==
    /\ FoldDone
    /\ fold_capacity(1) > 0
    /\ \E h \in 1..Len(battery_charge[1]) :
          battery_charge[1][h] = fold_capacity(1) /\ effective_balance[1][h] > 0
    /\ \E h \in 1..Len(battery_charge[1]) :
          battery_charge[1][h] = 0 /\ effective_balance[1][h] < 0

\* C3: on the same surplus series the run with the larger battery count or
\* height never has more empty hours than the run with the smaller one.
C3_LargerBatteryNotEmptier == fold_hours_empty(2) <= fold_hours_empty(1)

\* a finished pair of folds in which the larger battery is strictly less often empty
C3_Witness ==
    /\ FoldDone
    /\ fold_capacity(1) > 0
    /\ fold_hours_empty(2) < fold_hours_empty(1)
    /\ fold_hours_empty(2) > 0

\* C13: the fold starts from half the total capacity and, hour by hour in
\* increasing order, stores min(surplus, capacity - charge) when the hour's
\* surplus is positive and draws min(-surplus, charge) otherwise; the charge
\* after an hour is a function of the charge before it and that hour's
\* surplus only.
C13_FoldRecurrence ==
    \A r \in Runs :
        /\ fold_i = 0 => 2 * current_charge[r] = fold_capacity(r)
        /\ Len(battery_charge[r]) = fold_i /\ Len(power_surplus) = fold_i
        /\ \A h \in 1..fold_i :
              LET before == IF h = 1 THEN fold_capacity(r) \div 2
                                      ELSE battery_charge[r][h - 1]
                  surplus == power_surplus[h]
              IN battery_charge[r][h] =
                     IF surplus > 0
                     THEN before + Min(surplus, fold_capacity(r) - before)
                     ELSE before - Min(-surplus, before)
        /\ fold_i > 0 => current_charge[r] = battery_charge[r][fold_i]

\* a finished fold in which a surplus was curtailed at a full battery and the
\* next hour drew from the full battery, and a deficit went unmet at an empty
\* battery and the next hour charged from empty
C13_Witness ==
    /\ FoldDone
    /\ fold_capacity(1) > 0
    /\ \E h \in 1..(fold_i - 1) :
          /\ effective_balance[1][h] > 0
          /\ power_surplus[h + 1] < 0
          /\ battery_charge[1][h + 1] = fold_capacity(1) + power_surplus[h + 1]
    /\ \E h \in 1..(fold_i - 1) :
          /\ effective_balance[1][h] < 0
          /\ power_surplus[h + 1] > 0
          /\ battery_charge[1][h + 1] = power_surplus[h + 1]

\* -------------------------------------------------------------- SpecSeason

\* hour h (0-based) lies in the drought of a cycle of positive length
in_dry_season(params, h) ==
    LET day_of_cycle == (h \div HOURS_PER_DAY) % cycle_length_days(params)
    IN params.wet_days <= day_of_cycle
       /\ day_of_cycle < params.wet_days + params.dry_days

SeasonInit ==
    /\ season_cfg \in SeasonConfigs
    /\ season_done = {}
    /\ season_raised = [m \in Impls |-> "none"]
    /\ is_water_active = [m \in Impls |-> <<>>]
    /\ BoundariesIdle
    /\ FoldIdle /\ SampleIdle /\ OptIdle /\ BatchIdle /\ SearchIdle

\* One implementation computes its static season profile for the sample.
ComputeSchedule(impl) ==
    /\ impl \notin season_done
    /\ LET res == season_schedule(impl, season_cfg)
       IN /\ season_raised' = [season_raised EXCEPT ![impl] = res.raised]
          /\ is_water_active' = [is_water_active EXCEPT ![impl] = res.is_water_active]
    /\ season_done' = season_done \cup {impl}
    /\ UNCHANGED <<season_cfg, boundaries_impl, curr_day, season_boundaries,
                   boundaries_pc>>
    /\ UNCHANGED <<foldVars, sampleVars, optVars, batchVars, searchVars>>

ScheduleCore == ComputeSchedule("core")

ScheduleLegacy == ComputeSchedule("legacy")

SeasonNext == ScheduleCore \/ ScheduleLegacy

SpecSeason == SeasonInit /\ [][SeasonNext]_vars

C15_HydroInactiveExactlyInDrought ==
    \A m \in season_done :
        cycle_length_days(season_cfg) > 0 =>
            /\ Len(is_water_active[m]) = season_cfg.days * HOURS_PER_DAY
            /\ \A k \in 1..Len(is_water_active[m]) :
                  LET wet == season_cfg.wet_days
                      dry == season_cfg.dry_days
                      cycle == 2 * wet + dry + season_cfg.badtide_days
                      day_of_cycle == ((k - 1) \div 24) % cycle
                  IN /\ is_water_active[m][k] = ~(wet <= day_of_cycle /\ day_of_cycle < wet + dry)
                     /\ is_water_active[m][k] =
                            \/ (0 <= day_of_cycle /\ day_of_cycle < wet)
                            \/ (wet + dry <= day_of_cycle /\ day_of_cycle < 2 * wet + dry)
                            \/ (2 * wet + dry <= day_of_cycle /\ day_of_cycle < cycle)

\* both implementations have scheduled three days of a cycle of one wet day,
\* one day of drought, one wet day and one day of badtide: active, inactive,
\* active
C15_Witness ==
    /\ season_done = Impls
    /\ season_cfg = [days |-> 3, wet_days |-> 1, dry_days |-> 1, badtide_days |-> 1]
    /\ \A m \in Impls : \A k \in 1..(3 * HOURS_PER_DAY) :
          is_water_active[m][k] = (k <= HOURS_PER_DAY \/ k > 2 * HOURS_PER_DAY)

\* ---------------------------------------------------------- SpecBoundaries

BoundaryImpls == {"helpers", "legacy"}

\* helpers.py records curr_day * HOURS_PER_DAY, simulation.py records curr
boundary_start(impl, day) == IF impl = "helpers" THEN day * HOURS_PER_DAY ELSE day

BoundariesInit ==
    /\ season_cfg \in SeasonConfigs
    /\ season_done = {}
    /\ season_raised = [m \in Impls |-> "none"]
    /\ is_water_active = [m \in Impls |-> <<>>]
    /\ boundaries_impl \in BoundaryImpls
    /\ curr_day = 0
    /\ season_boundaries = <<>>
    /\ boundaries_pc = "while"
    /\ FoldIdle /\ SampleIdle /\ OptIdle /\ BatchIdle /\ SearchIdle

BoundariesFrame ==
    /\ UNCHANGED <<season_cfg, season_done, season_raised, is_water_active,
                   boundaries_impl>>
    /\ UNCHANGED <<foldVars, sampleVars, optVars, batchVars, searchVars>>

\* while curr_day < days:
WhileTest ==
    /\ boundaries_pc = "while"
    /\ boundaries_pc' = IF curr_day < season_cfg.days THEN "wet" ELSE "returned"
    /\ UNCHANGED <<curr_day, season_boundaries>>
    /\ BoundariesFrame

\* season_boundaries.append((curr_day * HOURS_PER_DAY, label)); curr_day +=
\* length; and, where the code has it, `if curr_day >= days: break`.  The
\* list is kept up to MaxBoundaries entries.
AppendSeason(at, label, length, breaks, next) ==
    /\ boundaries_pc = at
    /\ season_boundaries' =
           IF Len(season_boundaries) < MaxBoundaries
           THEN Append(season_boundaries,
                       <<boundary_start(boundaries_impl, curr_day), label>>)
           ELSE season_boundaries
    /\ curr_day' = curr_day + length
    /\ boundaries_pc' = IF breaks /\ curr_day + length >= season_cfg.days
                        THEN "returned" ELSE next
    /\ BoundariesFrame

AppendWet == AppendSeason("wet", "Wet", season_cfg.wet_days, TRUE, "dry")

AppendDry == AppendSeason("dry", "Dry", season_cfg.dry_days, TRUE, "wet_again")

AppendWetAgain ==
    AppendSeason("wet_again", "Wet", season_cfg.wet_days, TRUE, "badtide")

AppendBadtide ==
    AppendSeason("badtide", "Badtide", season_cfg.badtide_days, FALSE, "while")

BoundariesNext ==
    WhileTest \/ AppendWet \/ AppendDry \/ AppendWetAgain \/ AppendBadtide

\* a sequential loop: the next statement is always executed
SpecBoundaries ==
    BoundariesInit /\ [][BoundariesNext]_vars /\ WF_vars(BoundariesNext)

BOUNDARY_LABELS == <<"Wet", "Dry", "Wet", "Badtide">>

\* what the returned list looks like: starts non-decreasing and below the
\* horizon, labels in the repeating order Wet, Dry, Wet, Badtide
BoundariesWellFormed ==
    /\ \A k \in DOMAIN season_boundaries :
          /\ season_boundaries[k][1]
                 < boundary_start(boundaries_impl, season_cfg.days)
          /\ season_boundaries[k][2] = BOUNDARY_LABELS[((k - 1) % 4) + 1]
          /\ k > 1 => season_boundaries[k - 1][1] <= season_boundaries[k][1]

\* C25: calculate_season_boundaries terminates for every configuration with
\* days >= 0 and non-negative season lengths, the zero-length cycle included:
\* every run of the loop reaches its return.  (What the claim says of the
\* returned list is BoundariesReturnedShape below.)
C25_BoundariesTerminate == <>(boundaries_pc = "returned")

\* the part of C25 that the code keeps: whenever the loop returns for a
\* horizon of at least a day, the list begins with (0, "Wet") and is well
\* formed
BoundariesReturnedShape ==
    (boundaries_pc = "returned" /\ season_cfg.days > 0) =>
        /\ season_boundaries # <<>>
        /\ season_boundaries[1] = <<0, "Wet">>
        /\ BoundariesWellFormed

\* the loop has gone round once under a zero-length cycle and a horizon of a
\* day: four entries at hour 0, curr_day still 0, and the test is reached again
BoundariesLoopAgain ==
    /\ boundaries_pc = "while"
    /\ cycle_length_days(season_cfg) = 0 /\ season_cfg.days = 1
    /\ curr_day = 0
    /\ Len(season_boundaries) >= 4

\* -------------------------------------------------------------- SpecSample

REFERENCE_MIX ==
    [power_wheel |-> 0, water_wheel |-> 0, large_windmill |-> 0,
     windmill |-> 4, battery |-> 1, battery_height |-> 1]

REFERENCE_FACTORIES == [lumber_mill |-> 1, wood_workshop |-> 1]

SampleMixes ==
    {REFERENCE_MIX} \cup
    [power_wheel : 0..1, water_wheel : 0..1, large_windmill : 0..1, windmill : 0..1,
     battery : 0..MaxBattery, battery_height : 0..MaxBatteryHeight]

\* (wet, dry, badtide): the defaults of consts.py, a one-day-per-season cycle,
\* a drought only, and the zero-length cycle
SampleSeasons == {<<3, 30, 30>>, <<1, 1, 1>>, <<0, 1, 0>>, <<0, 0, 0>>}

SampleParams ==
    {[days |-> d, working_hours |-> 16,
      wet_days |-> s[1], dry_days |-> s[2], badtide_days |-> s[3],
      factories |-> REFERENCE_FACTORIES, energy_mix |-> m] :
        d \in 0..MaxSampleDays, s \in SampleSeasons, m \in SampleMixes}

SamplePaths == {"task", "core", "single"}

SampleInit ==
    /\ sample_params \in SampleParams
    /\ sample_path \in SamplePaths
    \* the old single-run path knows no power wheels
    /\ sample_path = "single" => sample_params.energy_mix.power_wheel = 0
    /\ sample_rng \in {[seed |-> s, child |-> 0, pos |-> 0] : s \in 0..MaxSeed}
    /\ sample_pc = "ready"
    /\ sample_hours_empty = 0
    /\ sample_data = NoData
    /\ FoldIdle /\ SeasonIdle /\ OptIdle /\ BatchIdle /\ SearchIdle

SampleFinish(res) ==
    /\ sample_pc' = "done"
    /\ sample_hours_empty' = res.hours_empty
    /\ sample_data' = res.data
    /\ sample_rng' = res.rng
    /\ UNCHANGED <<sample_params, sample_path>>
    /\ UNCHANGED <<foldVars, seasonVars, optVars, batchVars, searchVars>>

\* simulation.py: run_simulation_batch runs one task of its batch
RunSimulationTask ==
    /\ sample_pc = "ready" /\ sample_path = "task"
    /\ SampleFinish(run_simulation_task(sample_params, sample_rng))

\* core.py: jit_parallel_simulation runs one sample of its prange loop
CoreSample ==
    /\ sample_pc = "ready" /\ sample_path = "core"
    /\ SampleFinish(core_sample(sample_params, sample_rng))

\* src/src/main.py: the branch taken when runs = 1
LegacySingleRun ==
    /\ sample_pc = "ready" /\ sample_path = "single"
    /\ SampleFinish(legacy_single_run(sample_params, sample_rng))

SampleNext == RunSimulationTask \/ CoreSample \/ LegacySingleRun

SpecSample == SampleInit /\ [][SampleNext]_vars

SampleHorizon == sample_params.days * HOURS_PER_DAY

\* C2: the total cost of a finished sample is the sum of count x build cost
\* over the four producer kinds plus battery count x (84 + 6 x height), a
\* function of the energy mix alone (the same for every seed, season, horizon
\* and path), and it is 250 for {windmill 4, battery 1, height 1}.
C2_TotalCostOfMixOnly ==
    sample_pc = "done" =>
        LET em == sample_params.energy_mix
        IN /\ sample_data.total_cost =
                em.power_wheel * 50 + em.water_wheel * 50
                + em.large_windmill * 75 + em.windmill * 40
                + em.battery * (84 + em.battery_height * 6)
           /\ (em = REFERENCE_MIX => sample_data.total_cost = 250)

\* the reference mix, simulated over a day from the second seed, costs 250
C2_Witness ==
    /\ sample_pc = "done"
    /\ sample_params.energy_mix = REFERENCE_MIX
    /\ sample_params.days = 1
    /\ sample_rng.seed = 1
    /\ sample_data.total_cost = 250

\* C10: the hours_empty a path reports is the number of hours of the whole
\* horizon [0, days x 24) whose recorded charge is <= 0.
C10_HoursEmptyCountsWholeHorizon ==
    sample_pc = "done" =>
        sample_hours_empty =
            Cardinality({k \in 1..SampleHorizon : sample_data.battery_charge[k] <= 0})

\* C14: at every hour h the surplus is water wheels x rate while hydro is
\* active, plus power wheels x rate in working hours, plus the wind
\* production, minus the total factory rate in working hours; hydro is not
\* gated by working hours nor power wheels by the season; the reference
\* factories draw 300 in working hours and 0 otherwise.
C14_HourlySurplus ==
    sample_pc = "done" =>
        \A k \in 1..SampleHorizon :
            LET em == sample_params.energy_mix
                h == k - 1
                working == (h % 24) < sample_params.working_hours
                hydro == em.water_wheel * 150 * STRENGTH_SCALE
                wheel == IF working THEN em.power_wheel * 50 * STRENGTH_SCALE ELSE 0
                wind == wind_production(em, sample_data.wind_strength[k])
                consumption == IF working THEN 300 * STRENGTH_SCALE ELSE 0
                rest == sample_data.power_surplus[k] - wheel - wind + consumption
            IN /\ sample_data.power_consumption[k] = consumption
               /\ IF cycle_length_days(sample_params) > 0
                  THEN rest = IF in_dry_season(sample_params, h) THEN 0 ELSE hydro
                  ELSE rest \in {0, hydro}

\* finished samples with a water wheel and a power wheel: one in a wet season,
\* where the wheel turns outside working hours, one in a drought, where the
\* power wheel alone produces in working hours
C14_Witness ==
    /\ sample_pc = "done"
    /\ sample_params.days = 1
    /\ sample_params.energy_mix.water_wheel = 1
    /\ sample_params.energy_mix.power_wheel = 1
    /\ sample_params.energy_mix.windmill = 0
    /\ sample_params.energy_mix.large_windmill = 0
    /\ \/ /\ sample_params.wet_days = 3
          /\ sample_data.power_surplus[24] = 150 * STRENGTH_SCALE
          /\ sample_data.power_surplus[1] = (150 + 50 - 300) * STRENGTH_SCALE
       \/ /\ sample_params.wet_days = 0 /\ sample_params.dry_days = 1
          /\ sample_data.power_surplus[24] = 0
          /\ sample_data.power_surplus[1] = (50 - 300) * STRENGTH_SCALE

RECURSIVE IsSegmented(_, _)
IsSegmented(series, start) ==
    \/ start > Len(series)
    \/ \E duration \in WIND_DURATION_MIN_HOURS..(WIND_DURATION_MAX_HOURS - 1) :
          /\ \A k \in start..Min(start + duration - 1, Len(series)) :
                series[k] = series[start]
          /\ IsSegmented(series, start + duration)

\* C21: the wind-strength series of a sample has days x 24 entries and is a
\* concatenation of segments of 5 to 12 hours with one strength each, the
\* last one possibly cut at the horizon, on the draw-until-covered path and on
\* the path with total_hours div 5 + 1 pre-drawn segments alike.
C21_WindSeriesSegmented ==
    sample_pc = "done" =>
        /\ Len(sample_data.wind_strength) = sample_params.days * HOURS_PER_DAY
        /\ IsSegmented(sample_data.wind_strength, 1)

\* a finished one-day sample of the pre-drawn path whose strength changes at
\* least twice in the day and keeps each value for five hours or more
C21_Witness ==
    /\ sample_pc = "done" /\ sample_path = "core"
    /\ sample_params.days = 1
    /\ LET series == sample_data.wind_strength
           changes == {k \in 2..Len(series) : series[k] # series[k - 1]}
       IN /\ Len(series) = HOURS_PER_DAY
          /\ Cardinality(changes) >= 2
          /\ \A k \in changes : \A j \in changes :
                j > k => j - k >= WIND_DURATION_MIN_HOURS

\* C28: in every hour i of a sample, surplus[i] = (charge[i] - charge[i-1])
\* + effective_balance[i] with charge[-1] = capacity / 2; effective_balance[i]
\* is >= 0 when surplus[i] > 0 and <= 0 otherwise; and the balance the figure
\* code recomputes from the charge series is the effective_balance of the
\* simulator's fold.
C28_BalanceIdentity ==
    sample_pc = "done" =>
        LET data == sample_data
            figure == create_simulation_figure(data, sample_params)
        IN \A i \in 1..SampleHorizon :
              LET previous == IF i = 1 THEN data.total_battery_capacity \div 2
                              ELSE data.battery_charge[i - 1]
              IN /\ data.power_surplus[i]
                        = (data.battery_charge[i] - previous)
                          + data.effective_balance[i]
                 /\ data.power_surplus[i] > 0 => data.effective_balance[i] >= 0
                 /\ data.power_surplus[i] <= 0 => data.effective_balance[i] <= 0
                 /\ figure.raised = "none"
                 /\ figure.effective_balance[i] = data.effective_balance[i]

\* a finished one-day sample with a battery in which one hour leaves surplus
\* unstored and another hour's deficit is covered by the battery whole, and
\* the figure's balance is the recorded one
C28_Witness ==
    /\ sample_pc = "done" /\ sample_path = "task"
    /\ sample_params.days = 1
    /\ sample_data.total_battery_capacity > 0
    /\ \E i \in 1..SampleHorizon : sample_data.effective_balance[i] > 0
    /\ \E i \in 2..SampleHorizon :
          /\ sample_data.effective_balance[i] = 0
          /\ sample_data.battery_charge[i] < sample_data.battery_charge[i - 1]
    /\ create_simulation_figure(sample_data, sample_params).effective_balance
           = sample_data.effective_balance

\* ----------------------------------------------------------------- SpecOpt

\* the dearest configuration within the default bounds of optimize
DEAREST_MIX ==
    [power_wheel |-> DEFAULT_BOUNDS.power_wheel[2],
     water_wheel |-> DEFAULT_BOUNDS.water_wheel[2],
     large_windmill |-> DEFAULT_BOUNDS.large_windmills[2],
     windmill |-> DEFAULT_BOUNDS.windmills[2],
     battery |-> DEFAULT_BOUNDS.batteries[2],
     battery_height |-> DEFAULT_BOUNDS.battery_height[2]]

\* 5 percent of a day's hours, in hundredths of an hour
FIVE_PERCENT_OF_DAY == (5 * HOURS_PER_DAY * PERCENTILE_SCALE) \div 100

OptMixes ==
    {REFERENCE_MIX, [REFERENCE_MIX EXCEPT !.battery = 2]}

\* results as evaluate_config builds them over a one-day horizon: cheap or
\* dear, never or always empty at the 95th percentile, in deficit or not
OptCandidates ==
    [params : OptMixes, cost : {250, 340},
     p95_hours_empty : {0, HOURS_PER_DAY * PERCENTILE_SCALE},
     total_hours : {HOURS_PER_DAY}, energy_surplus : {-100, 0}]
    \cup
    [params : {DEAREST_MIX}, cost : {calculate_total_cost(DEAREST_MIX)},
     p95_hours_empty : {0, 3 * PERCENTILE_SCALE, HOURS_PER_DAY * PERCENTILE_SCALE},
     total_hours : {HOURS_PER_DAY}, energy_surplus : {-1, 0}]
    \cup
    \* at 5 percent of the day (1.2 hours) and a hundredth of an hour above
    [params : {REFERENCE_MIX}, cost : {250},
     p95_hours_empty : {FIVE_PERCENT_OF_DAY, FIVE_PERCENT_OF_DAY + 1},
     total_hours : {HOURS_PER_DAY}, energy_surplus : {0}]
    \cup
    \* over a horizon of 0 hours
    [params : {REFERENCE_MIX}, cost : {250}, p95_hours_empty : {0},
     total_hours : {0}, energy_surplus : {-100, 0}]

\* targets in percent: none tolerated, the default, everything tolerated
EmptyPercentTargets == {0, 5, 100}

OptInit ==
    /\ history = <<>>
    /\ optimal_solutions = <<>>
    /\ opt_pc = "search"
    /\ given_max_empty_percent = 5
    /\ FoldIdle /\ SeasonIdle /\ SampleIdle /\ BatchIdle /\ SearchIdle

\* optimize: history.append(best_result)
HistoryAppend ==
    /\ opt_pc = "search"
    /\ Len(history) < MaxHistory
    /\ \E result \in OptCandidates : history' = Append(history, result)
    /\ UNCHANGED <<optimal_solutions, opt_pc, given_max_empty_percent>>
    /\ UNCHANGED <<foldVars, seasonVars, sampleVars, batchVars, searchVars>>

\* find_optimal_solutions(results, max_empty_percent): run_optimization
\* passes 5.0, the default; other callers pass their own target
FindOptimalSolutions ==
    /\ opt_pc = "search"
    /\ \E target \in EmptyPercentTargets :
          /\ given_max_empty_percent' = target
          /\ optimal_solutions' = find_optimal_solutions(history, target)
    /\ opt_pc' = "found"
    /\ UNCHANGED history
    /\ UNCHANGED <<foldVars, seasonVars, sampleVars, batchVars, searchVars>>

OptNext == HistoryAppend \/ FindOptimalSolutions

SpecOpt == OptInit /\ [][OptNext]_vars

FeasibleInputs == {i \in 1..Len(history) : is_valid(history[i])}

\* C6: find_optimal_solutions returns only feasible entries of its input, in
\* ascending cost order, no two with the same configuration; every
\* configuration of a feasible input is returned exactly once, at the lowest
\* cost of its feasible occurrences; with no feasible input the list is empty.
C6_OptimalSolutionsContract ==
    opt_pc = "found" =>
        LET out == optimal_solutions
            n == Len(out)
        IN /\ \A k \in 1..n : \E i \in FeasibleInputs : history[i] = out[k]
           /\ \A k \in 1..n : \A l \in 1..n : k < l => out[k].cost <= out[l].cost
           /\ \A k \in 1..n : \A l \in 1..n :
                 k # l => params_key(out[k].params) # params_key(out[l].params)
           /\ \A i \in FeasibleInputs :
                 /\ Cardinality({k \in 1..n :
                        params_key(out[k].params) = params_key(history[i].params)}) = 1
                 /\ \A k \in 1..n :
                        params_key(out[k].params) = params_key(history[i].params)
                            => out[k].cost <= history[i].cost
           /\ (FeasibleInputs = {} => out = <<>>)

\* C12: find_optimal_solutions(results, max_empty_percent) returns the
\* configurations of exactly the inputs with p95_empty_percent <=
\* max_empty_percent and energy_surplus >= 0, whatever the argument's value.
C12_FeasibleByGivenTarget ==
    opt_pc = "found" =>
        {params_key(optimal_solutions[k].params) : k \in 1..Len(optimal_solutions)}
            = {params_key(history[i].params) :
                   i \in {j \in 1..Len(history) :
                             /\ ~p95_empty_percent_exceeds(history[j],
                                                         given_max_empty_percent)
                             /\ history[j].energy_surplus >= 0}}

\* C19: calculate_score is 1e12 + |energy_surplus| in deficit, else 1e9 +
\* p95_empty_percent when that exceeds the 5 percent target, else the cost;
\* within the search bounds every candidate in deficit scores strictly worse
\* than every fed one, and every fed but unreliable candidate strictly worse
\* than every feasible one.
C19_ScoreTiers ==
    \A i \in 1..Len(history) :
        LET r == history[i]
            score == calculate_score(r)
            deficit == r.energy_surplus < 0
            unreliable == ~deficit /\ p95_empty_percent_exceeds(r, 5)
        IN /\ deficit =>
                  /\ score.giga >= 1000
                  /\ score.giga = 1000
                  /\ score.num = -r.energy_surplus * (score.den \div STRENGTH_SCALE)
           /\ unreliable =>
                  /\ score.giga = 1
                  /\ score.num * (r.total_hours * PERCENTILE_SCALE)
                         = (r.p95_hours_empty * 100) * score.den
           /\ (~deficit /\ ~unreliable) => score = [giga |-> 0, num |-> r.cost, den |-> 1]
           /\ \A j \in 1..Len(history) :
                  LET other == history[j]
                      other_deficit == other.energy_surplus < 0
                      other_feasible == is_valid(other)
                  IN /\ (deficit /\ ~other_deficit)
                            => score_less(calculate_score(other), score)
                     /\ (unreliable /\ other_feasible)
                            => score_less(calculate_score(other), score)

\* a history with the dearest configuration of the default bounds feasible,
\* the same configuration empty all day but fed, and a candidate one
\* 200th of a horsepower-hour in deficit
C19_Witness ==
    /\ Len(history) = 3
    /\ history[1].params = DEAREST_MIX /\ is_valid(history[1])
    /\ history[2].energy_surplus = 0
    /\ history[2].p95_hours_empty = HOURS_PER_DAY * PERCENTILE_SCALE
    /\ history[3].energy_surplus = -1
    /\ history[3].p95_hours_empty = 0

\* C29: for every candidate, is_valid is true exactly when calculate_score
\* returns the build cost, exactly when energy_surplus >= 0 and
\* p95_empty_percent <= 5, and exactly when the score is below 1e9; over a
\* horizon of 0 hours p95_empty_percent is 0 and the candidate is valid
\* whenever its energy_surplus >= 0.
C29_ValidIffCostScore ==
    \A i \in 1..Len(history) :
        LET r == history[i]
            score == calculate_score(r)
            within_five_percent ==
                IF r.total_hours > 0
                THEN r.p95_hours_empty * 100 <= 5 * r.total_hours * PERCENTILE_SCALE
                ELSE TRUE
        IN /\ is_valid(r) <=> score = [giga |-> 0, num |-> r.cost, den |-> 1]
           /\ is_valid(r) <=> (r.energy_surplus >= 0 /\ within_five_percent)
           /\ is_valid(r) <=> score_less(score, [giga |-> 1, num |-> 0, den |-> 1])
           /\ r.total_hours = 0 =>
                 /\ ~p95_empty_percent_exceeds(r, 0)
                 /\ is_valid(r) <=> r.energy_surplus >= 0

\* a history with a candidate over a horizon of 0 hours that is valid, a
\* candidate empty for exactly 5 percent of the day, valid, and one empty a
\* hundredth of an hour longer, not valid
C29_Witness ==
    /\ Len(history) = 3
    /\ history[1].total_hours = 0 /\ history[1].energy_surplus = 0
    /\ is_valid(history[1])
    /\ history[2].p95_hours_empty = FIVE_PERCENT_OF_DAY /\ is_valid(history[2])
    /\ history[3].p95_hours_empty = FIVE_PERCENT_OF_DAY + 1
    /\ history[3].energy_surplus = 0 /\ ~is_valid(history[3])
    /\ calculate_score(history[3]).giga = 1

\* a history holding one configuration twice, feasible both times and dearer
\* the first time, beside an infeasible entry: one solution comes back
C6_Witness ==
    /\ opt_pc = "found"
    /\ Len(history) = 3
    /\ is_valid(history[1]) /\ is_valid(history[2]) /\ ~is_valid(history[3])
    /\ params_key(history[1].params) = params_key(history[2].params)
    /\ history[1].cost > history[2].cost
    /\ optimal_solutions = <<history[2]>>

\* --------------------------------------------------------------- SpecBatch

BatchEntries == {"visualize", "evaluate", "core"}

\* one small windmill against two factories: whether the battery runs empty
\* depends on the wind drawn
MARGINAL_MIX == [REFERENCE_MIX EXCEPT !.windmill = 1]

\* three water wheels and no battery: in the wet season production exceeds
\* the consumption of the two factories in every hour
HYDRO_ONLY_MIX ==
    [power_wheel |-> 0, water_wheel |-> 3, large_windmill |-> 0, windmill |-> 0,
     battery |-> 0, battery_height |-> 0]

BatchParams ==
    {[days |-> d, working_hours |-> 16,
      wet_days |-> 3, dry_days |-> 30, badtide_days |-> 30,
      factories |-> REFERENCE_FACTORIES, energy_mix |-> m] :
        d \in 0..MaxBatchDays, m \in {MARGINAL_MIX, REFERENCE_MIX, HYDRO_ONLY_MIX}}

\* The work a driver starts with.  run_visualization submits its batches;
\* evaluate_config calls run_simulation_batch once; jit_parallel_simulation
\* has one numba thread per worker, each with the thread's own np.random
\* state (taken here as the thread's child of the root seed).
fresh_batches(e, samples, workers, seed) ==
    CASE e = "visualize" ->
            LET counts == make_batches(samples, workers)
            IN [b \in 1..Len(counts) |-> NewBatch(counts[b], NoGenerator, "submitted")]
      [] e = "evaluate" -> <<NewBatch(samples, NoGenerator, "submitted")>>
      [] e = "core" ->
            [t \in 1..workers |-> NewBatch(0, get_generator(seed, t), "running")]

BatchInit ==
    /\ entry \in BatchEntries
    /\ drv_params \in BatchParams
    /\ n_samples \in 0..MaxSamples
    /\ num_workers \in 1..MaxWorkers
    /\ entry = "evaluate" => num_workers = 1
    /\ root_seed \in 0..MaxSeed
    /\ n_children_spawned = 0
    /\ batches = fresh_batches(entry, n_samples, num_workers, root_seed)
    /\ run_empty_hours = <<>>
    /\ final_surpluses = <<>>
    /\ max_hours_empty = -1
    /\ worst_run_data = <<>>
    /\ aggregate = <<>>
    /\ drv_raised = "none"
    /\ drv_pc = "running"
    /\ run_no = 1
    /\ first_run = <<>>
    /\ issued_streams = <<>>
    /\ sample_streams = <<>>
    /\ FoldIdle /\ SeasonIdle /\ SampleIdle /\ OptIdle /\ SearchIdle

BatchFrame ==
    /\ UNCHANGED <<entry, drv_params, n_samples, root_seed, run_no, first_run>>
    /\ UNCHANGED <<foldVars, seasonVars, sampleVars, optVars, searchVars>>

\* run_simulation_batch: _rng = rng_service.get_generator()
GetGenerator(b) ==
    /\ drv_pc = "running" /\ entry \in {"visualize", "evaluate"}
    /\ b \in DOMAIN batches /\ batches[b].pc = "submitted"
    /\ batches' = [batches EXCEPT
                      ![b].rng = get_generator(root_seed, n_children_spawned),
                      ![b].pc = "running"]
    /\ n_children_spawned' = n_children_spawned + 1
    /\ issued_streams' = Append(issued_streams, n_children_spawned)
    /\ UNCHANGED <<num_workers, run_empty_hours, final_surpluses, max_hours_empty,
                   worst_run_data, aggregate, drv_raised, drv_pc, sample_streams>>
    /\ BatchFrame

\* run_simulation_batch: results.append(run_simulation_task(params, _rng))
RunSample(b) ==
    /\ drv_pc = "running" /\ entry \in {"visualize", "evaluate"}
    /\ b \in DOMAIN batches /\ batches[b].pc = "running"
    /\ batches[b].done < batches[b].count
    /\ LET task == run_simulation_task(drv_params, batches[b].rng)
       IN batches' = [batches EXCEPT
                         ![b].rng = task.rng,
                         ![b].done = @ + 1,
                         ![b].results = Append(@, sample_result(task))]
    /\ sample_streams' = Append(sample_streams, batches[b].rng.child)
    /\ UNCHANGED <<num_workers, n_children_spawned, run_empty_hours, final_surpluses,
                   max_hours_empty, worst_run_data, aggregate, drv_raised, drv_pc,
                   issued_streams>>
    /\ BatchFrame

\* run_simulation_batch: return results
BatchReturn(b) ==
    /\ drv_pc = "running" /\ entry \in {"visualize", "evaluate"}
    /\ b \in DOMAIN batches /\ batches[b].pc = "running"
    /\ batches[b].done = batches[b].count
    /\ batches' = [batches EXCEPT ![b].pc = "completed"]
    /\ UNCHANGED <<num_workers, n_children_spawned, run_empty_hours, final_surpluses,
                   max_hours_empty, worst_run_data, aggregate, drv_raised, drv_pc,
                   issued_streams, sample_streams>>
    /\ BatchFrame

\* run_visualization: one round of `for future in as_completed(futures)`
CollectBatch(b) ==
    /\ drv_pc = "running" /\ entry = "visualize"
    /\ b \in DOMAIN batches /\ batches[b].pc = "completed"
    /\ LET acc == collect_results(batches[b].results, 1,
                      [run_empty_hours |-> run_empty_hours,
                       max_hours_empty |-> max_hours_empty,
                       worst_run_data |-> worst_run_data])
       IN /\ run_empty_hours' = acc.run_empty_hours
          /\ max_hours_empty' = acc.max_hours_empty
          /\ worst_run_data' = acc.worst_run_data
    /\ batches' = [batches EXCEPT ![b].pc = "collected"]
    /\ UNCHANGED <<num_workers, n_children_spawned, final_surpluses, aggregate,
                   drv_raised, drv_pc, issued_streams, sample_streams>>
    /\ BatchFrame

\* run_visualization after the pool: `if worst_run_data:` figure or message
FinishVisualization ==
    /\ drv_pc = "running" /\ entry = "visualize"
    /\ \A b \in DOMAIN batches : batches[b].pc = "collected"
    /\ aggregate' = <<[figure |-> worst_run_data # <<>>,
                       run_empty_hours |-> run_empty_hours]>>
    /\ drv_pc' = "done"
    /\ UNCHANGED <<num_workers, n_children_spawned, batches, run_empty_hours,
                   final_surpluses, max_hours_empty, worst_run_data, drv_raised,
                   issued_streams, sample_streams>>
    /\ BatchFrame

\* evaluate_config from hours_empty_list to the OptimizationResult
EvaluateConfig ==
    /\ drv_pc = "running" /\ entry = "evaluate"
    /\ batches[1].pc = "completed"
    /\ LET batch_results == batches[1].results
           agg == evaluate_aggregate(drv_params.energy_mix, batch_results,
                                     drv_params.days * HOURS_PER_DAY)
       IN /\ run_empty_hours' =
                 [i \in 1..Len(batch_results) |-> batch_results[i].hours_empty]
          /\ drv_raised' = agg.raised
          /\ aggregate' = agg.result
    /\ batches' = [batches EXCEPT ![1].pc = "collected"]
    /\ drv_pc' = "done"
    /\ UNCHANGED <<num_workers, n_children_spawned, final_surpluses, max_hours_empty,
                   worst_run_data, issued_streams, sample_streams>>
    /\ BatchFrame

\* jit_parallel_simulation: iteration s of the prange loop, run by thread t on
\* the thread's np.random state
CoreIteration(t) ==
    /\ drv_pc = "running" /\ entry = "core"
    /\ t \in DOMAIN batches
    /\ Len(run_empty_hours) < n_samples
    /\ LET res == core_sample(drv_params, batches[t].rng)
       IN /\ run_empty_hours' = Append(run_empty_hours, res.hours_empty)
          /\ final_surpluses' = Append(final_surpluses, res.final_surplus)
          /\ batches' = [batches EXCEPT ![t].rng = res.rng, ![t].done = @ + 1]
    /\ sample_streams' = Append(sample_streams, batches[t].rng.child)
    /\ UNCHANGED <<num_workers, n_children_spawned, max_hours_empty, worst_run_data,
                   aggregate, drv_raised, drv_pc, issued_streams>>
    /\ BatchFrame

\* jit_parallel_simulation from np.argmax on, and run_simulation's result
CoreReturn ==
    /\ drv_pc = "running" /\ entry = "core"
    /\ Len(run_empty_hours) = n_samples
    /\ LET agg == core_aggregate(run_empty_hours, final_surpluses)
       IN /\ drv_raised' = agg.raised
          /\ aggregate' = agg.result
    /\ drv_pc' = "done"
    /\ UNCHANGED <<num_workers, n_children_spawned, batches, run_empty_hours,
                   final_surpluses, max_hours_empty, worst_run_data, issued_streams,
                   sample_streams>>
    /\ BatchFrame

\* The driver is called a second time in the process, on the same seed and
\* options.  run_visualization builds a new RNGService and pool, on w workers;
\* the numba threads keep their np.random state from the first call.
Rerun(w) ==
    /\ drv_pc = "done" /\ run_no = 1
    /\ w \in 1..MaxWorkers
    /\ entry # "visualize" => w = num_workers
    /\ first_run' = <<[num_workers |-> num_workers,
                       run_empty_hours |-> run_empty_hours]>>
    /\ run_no' = 2
    /\ num_workers' = w
    /\ n_children_spawned' = 0
    /\ batches' = IF entry = "core"
                  THEN [t \in DOMAIN batches |-> [batches[t] EXCEPT !.done = 0]]
                  ELSE fresh_batches(entry, n_samples, w, root_seed)
    /\ run_empty_hours' = <<>>
    /\ final_surpluses' = <<>>
    /\ max_hours_empty' = -1
    /\ worst_run_data' = <<>>
    /\ aggregate' = <<>>
    /\ drv_raised' = "none"
    /\ drv_pc' = "running"
    /\ issued_streams' = <<>>
    /\ sample_streams' = <<>>
    /\ UNCHANGED <<entry, drv_params, n_samples, root_seed>>
    /\ UNCHANGED <<foldVars, seasonVars, sampleVars, optVars, searchVars>>

BatchNext ==
    \/ \E b \in 1..MaxWorkers : GetGenerator(b)
    \/ \E b \in 1..MaxWorkers : RunSample(b)
    \/ \E b \in 1..MaxWorkers : BatchReturn(b)
    \/ \E b \in 1..MaxWorkers : CollectBatch(b)
    \/ FinishVisualization
    \/ EvaluateConfig
    \/ \E t \in 1..MaxWorkers : CoreIteration(t)
    \/ CoreReturn
    \/ \E w \in 1..MaxWorkers : Rerun(w)

SpecBatch == BatchInit /\ [][BatchNext]_vars

SecondRunDone == run_no = 2 /\ drv_pc = "done" /\ drv_raised = "none"

\* C4: two runs of run_visualization in one process, on the same root seed,
\* options and worker count, return the same hours_empty sequence (same
\* values, same order), whatever the order in which the batches take their
\* stream and complete.
C4_SameSeedSameSequence ==
    (SecondRunDone /\ entry = "visualize" /\ first_run[1].num_workers = num_workers)
        => run_empty_hours = first_run[1].run_empty_hours

\* C5: for a fixed root seed and options the multiset of hours_empty values of
\* a visualization run is the same for every worker count.
C5_SameMultisetForEverySplit ==
    (SecondRunDone /\ entry = "visualize")
        => SameMultiset(run_empty_hours, first_run[1].run_empty_hours)

\* C7: with no samples or no days the run returns (no hours_empty entries, or
\* hours_empty 0 for every sample) and raises nothing, both for the
\* visualization and for evaluate_config.
C7_DegenerateRunDoesNotRaise ==
    (drv_pc = "done" /\ entry \in {"visualize", "evaluate"}
        /\ (n_samples = 0 \/ drv_params.days = 0))
        => /\ drv_raised = "none"
           /\ Len(run_empty_hours) = n_samples
           /\ \A i \in 1..Len(run_empty_hours) : run_empty_hours[i] = 0

\* the results of a visualization's batches, in the order the batches were
\* submitted
RECURSIVE results_in_batch_order(_)
results_in_batch_order(b) ==
    IF b > Len(batches) THEN <<>>
    ELSE batches[b].results \o results_in_batch_order(b + 1)

\* C11: the worst sample of a finished run has the maximum hours_empty of the
\* run and is, among the samples tied at the maximum, the first in the fixed
\* enumeration of the samples (batch by batch for the visualization, sample
\* index for run_simulation), whatever the order in which batches complete.
C11_WorstSampleIsFirstMaximum ==
    (drv_pc = "done" /\ drv_raised = "none" /\ n_samples > 0) =>
        /\ entry = "visualize" =>
              LET all == results_in_batch_order(1)
                  hours == [i \in 1..Len(all) |-> all[i].hours_empty]
              IN worst_run_data = <<all[np_argmax(hours) + 1].data>>
        /\ entry = "core" =>
              /\ \A i \in 1..n_samples :
                    run_empty_hours[i] <= run_empty_hours[aggregate[1].worst_idx + 1]
              /\ \A i \in 1..aggregate[1].worst_idx :
                    run_empty_hours[i] < run_empty_hours[aggregate[1].worst_idx + 1]

\* C9: every sample of a run on the RNG service runs on a generator of its
\* own: no child stream serves two samples, and the streams get_generator
\* hands out are pairwise distinct.
C9_OneStreamPerSample ==
    entry \in {"visualize", "evaluate"} =>
    /\ \A i \in 1..Len(sample_streams) : \A j \in 1..Len(sample_streams) :
          i # j => sample_streams[i] # sample_streams[j]
    /\ \A i \in 1..Len(issued_streams) : \A j \in 1..Len(issued_streams) :
          i # j => issued_streams[i] # issued_streams[j]

\* per sample of a run on one Generator, the sum over the horizon of the
\* hourly production minus the sum of the hourly consumption; `path` is
\* "evaluate" (run_simulation_task) or "core" (the prange body)
RECURSIVE horizon_surpluses(_, _, _, _, _)
horizon_surpluses(path, params, samples, g, acc) ==
    IF samples <= 0 THEN acc
    ELSE LET task == IF path = "core" THEN core_sample(params, g)
                     ELSE run_simulation_task(params, g)
         IN horizon_surpluses(path, params, samples - 1, task.rng,
                Append(acc, SeqSum(task.data.power_production)
                            - SeqSum(task.data.power_consumption)))

\* the storage a configuration may have instead of its own
StorageChoices == (0..MaxBattery) \X (0..MaxBatteryHeight)

\* avg is the mean of the values, rounded down
IsMeanOf(avg, values) ==
    /\ Len(values) * avg <= SeqSum(values)
    /\ SeqSum(values) < Len(values) * avg + Len(values)

\* C22: the mean final surplus a driver reports is the average over its
\* samples of (production summed over the horizon minus consumption summed
\* over the horizon), for evaluate_config, which reads the last entries of the
\* cumulative series, and for run_simulation alike, and it is the same for
\* every battery count and battery height of the configuration.
C22_MeanFinalSurplus ==
    (/\ drv_pc = "done" /\ drv_raised = "none" /\ run_no = 1
     /\ entry \in {"evaluate", "core"} /\ num_workers = 1 /\ n_samples > 0)
    => \A storage \in StorageChoices :
          LET params == [drv_params EXCEPT
                            !.energy_mix.battery = storage[1],
                            !.energy_mix.battery_height = storage[2]]
              g == IF entry = "core" THEN get_generator(root_seed, 1)
                   ELSE get_generator(root_seed, issued_streams[1])
              sums == horizon_surpluses(entry, params, n_samples, g, <<>>)
              reported == IF entry = "core" THEN aggregate[1].average_final_surplus
                          ELSE aggregate[1].energy_surplus
          IN IsMeanOf(reported, sums)

\* evaluate_config has returned for three samples of the marginal mix, which
\* end the day in deficit on average
C22_Witness ==
    /\ drv_pc = "done" /\ drv_raised = "none" /\ run_no = 1
    /\ entry = "evaluate" /\ n_samples = 3
    /\ drv_params.energy_mix = MARGINAL_MIX
    /\ aggregate[1].energy_surplus < 0
    /\ aggregate[1].energy_surplus =
           np_mean(horizon_surpluses("evaluate", drv_params, 3,
                                     get_generator(root_seed, issued_streams[1]), <<>>))

\* C24: a configuration whose total battery capacity is 0 has charge 0 at
\* every hour of every sample, so each sample's hours_empty is the whole
\* horizon days x 24, hours of positive surplus included; the candidate
\* evaluate_config builds from it has p95_empty_percent = 100 and is not
\* valid, whatever it produces.
C24_NoStorageNeverFeasible ==
    (/\ drv_pc = "done"
     /\ calculate_total_battery_capacity(drv_params.energy_mix) = 0)
    => /\ \A i \in DOMAIN run_empty_hours :
             run_empty_hours[i] = drv_params.days * HOURS_PER_DAY
       /\ entry # "core" =>
             \A b \in DOMAIN batches : \A i \in DOMAIN batches[b].results :
                 LET charge == batches[b].results[i].data.battery_charge
                 IN /\ Len(charge) = drv_params.days * HOURS_PER_DAY
                    /\ \A k \in DOMAIN charge : charge[k] = 0
       /\ (entry = "evaluate" /\ drv_raised = "none") =>
             /\ aggregate[1].total_hours > 0
             /\ aggregate[1].p95_hours_empty * 100
                    = 100 * aggregate[1].total_hours * PERCENTILE_SCALE
             /\ ~is_valid(aggregate[1])

\* evaluate_config has returned for two one-day samples of the water wheels
\* without a battery: production exceeds consumption in every hour, every
\* hour counts as empty and the candidate is not valid
C24_Witness ==
    /\ drv_pc = "done" /\ drv_raised = "none" /\ entry = "evaluate"
    /\ drv_params.energy_mix = HYDRO_ONLY_MIX
    /\ n_samples = 2
    /\ run_empty_hours = <<HOURS_PER_DAY, HOURS_PER_DAY>>
    /\ aggregate[1].energy_surplus > 0
    /\ aggregate[1].p95_hours_empty = HOURS_PER_DAY * PERCENTILE_SCALE
    /\ ~is_valid(aggregate[1])

\* C27: run_visualization splits the samples into at most num_workers
\* batches, none empty, of sizes at most 1 apart that add up to the sample
\* count; once every batch is joined, exactly that many samples have been
\* simulated and the collected hours_empty list has exactly that many
\* entries.
C27_BatchesCoverSamples ==
    entry = "visualize" =>
        LET counts == [b \in DOMAIN batches |-> batches[b].count]
            simulated == [b \in DOMAIN batches |-> batches[b].done]
        IN /\ Len(batches) <= num_workers
           /\ \A b \in DOMAIN batches : counts[b] > 0
           /\ \A a \in DOMAIN batches : \A b \in DOMAIN batches :
                 counts[a] - counts[b] <= 1
           /\ SeqSum(counts) = n_samples
           /\ drv_pc = "done" =>
                 /\ SeqSum(simulated) = n_samples
                 /\ Len(sample_streams) = n_samples
                 /\ Len(run_empty_hours) = n_samples
                 /\ Len(aggregate[1].run_empty_hours) = n_samples

\* run_visualization has joined the batches of three samples on two workers,
\* of two samples and one, and holds three hours_empty entries
C27_Witness ==
    /\ entry = "visualize" /\ drv_pc = "done" /\ run_no = 1
    /\ n_samples = 3 /\ num_workers = 2
    /\ Len(batches) = 2
    /\ batches[1].count = 2 /\ batches[2].count = 1
    /\ batches[1].done = 2 /\ batches[2].done = 1
    /\ Len(run_empty_hours) = 3

\* -------------------------------------------------------------- SpecSearch

\* EnergyMixParams()
EMPTY_MIX ==
    [power_wheel |-> 0, water_wheel |-> 0, large_windmill |-> 0,
     windmill |-> 0, battery |-> 0, battery_height |-> 0]

\* bounds handed to optimize: a few water wheels, power wheels and windmills
\* against the two reference factories, with and without a battery
SearchBounds ==
    {[power_wheel |-> <<0, 1>>, water_wheel |-> <<0, 3>>,
      large_windmills |-> <<0, 0>>, windmills |-> <<0, 1>>,
      batteries |-> <<0, 2>>, battery_height |-> <<1, 2>>],
     [power_wheel |-> <<0, 2>>, water_wheel |-> <<1, 2>>,
      large_windmills |-> <<0, 1>>, windmills |-> <<0, 0>>,
      batteries |-> <<1, 1>>, battery_height |-> <<1, 1>>]}

\* optimize(base_params, iterations, simulations_per_config, bounds), the
\* pool size os.cpu_count() and the seed of the RNGService; worker_iterations
\* is 10 in optimize and ranges over 1..MaxWorkerIterations here
SearchArgs ==
    {[base_params |-> [days |-> 1, working_hours |-> 16,
                       wet_days |-> 3, dry_days |-> 30, badtide_days |-> 30,
                       factories |-> REFERENCE_FACTORIES, energy_mix |-> EMPTY_MIX],
      simulations_per_config |-> n, bounds |-> b, pool_size |-> c,
      iterations |-> it, worker_iterations |-> wi, num_rounds |-> it \div wi,
      seed |-> sd] :
        n \in 1..MaxSearchSamples, b \in SearchBounds, c \in 1..MaxWalkers,
        wi \in 1..MaxWorkerIterations, it \in 0..MaxSearchIterations,
        sd \in 0..MaxSearchSeed}

\* an optimization_worker call the pool has not started yet
SubmittedWorker ==
    [pc |-> "submitted", rng |-> NoGenerator, current_result |-> <<>>, i |-> 0,
     decisions |-> <<>>, last_mutation |-> <<>>, memory |-> <<>>, current_ref |-> 0]

\* the references of a worker's arguments in its memory
BASE_PARAMS_REF == 1
START_PARAMS_REF == 3

\* the objects a worker call receives: base_params, the energy mix base_params
\* refers to, and start_params
worker_arguments(base_params, start_params) ==
    <<[base_params EXCEPT !.energy_mix = 2], base_params.energy_mix, start_params>>

\* optimize: start_params_list, drawn one after the other from main_rng
RECURSIVE initial_start_params(_, _, _, _)
initial_start_params(bounds, g, count, acc) ==
    IF count = 0 THEN acc
    ELSE LET drawn == get_random_params(bounds, g)
         IN initial_start_params(bounds, drawn.rng, count - 1,
                                 Append(acc, drawn.params))

\* optimize up to the first round: main_rng is the service's first child
SearchInit ==
    /\ search_args \in SearchArgs
    /\ streams_spawned = 1
    /\ start_params_list =
           initial_start_params(search_args.bounds,
                                get_generator(search_args.seed, 0),
                                search_args.pool_size, <<>>)
    /\ walkers = [w \in 1..search_args.pool_size |-> SubmittedWorker]
    /\ round_num = 0
    /\ best_result = <<>>
    /\ best_valid_result = <<>>
    /\ search_history = <<>>
    /\ returned_results = <<>>
    /\ search_pc = "running"
    /\ search_raised = "none"
    /\ FoldIdle /\ SeasonIdle /\ SampleIdle /\ OptIdle /\ BatchIdle

SearchHorizon == search_args.base_params.days * HOURS_PER_DAY

\* how a candidate's score stands against the incumbent's
compare_scores(candidate_result, current_result) ==
    IF score_less(calculate_score(candidate_result), calculate_score(current_result))
    THEN "lower"
    ELSE IF score_less(calculate_score(current_result),
                       calculate_score(candidate_result))
    THEN "higher"
    ELSE "equal"

\* optimization_worker: _rng = rng_service_proxy.get_generator()
WorkerGetGenerator(w) ==
    /\ search_pc = "running" /\ round_num < search_args.num_rounds
    /\ w \in DOMAIN walkers /\ walkers[w].pc = "submitted"
    /\ walkers' = [walkers EXCEPT
                      ![w].rng = get_generator(search_args.seed, streams_spawned),
                      ![w].memory = worker_arguments(search_args.base_params,
                                                     start_params_list[w]),
                      ![w].current_ref = START_PARAMS_REF,
                      ![w].pc = "started"]
    /\ streams_spawned' = streams_spawned + 1
    /\ UNCHANGED <<search_args, start_params_list, round_num, best_result,
                   best_valid_result, search_history, returned_results,
                   search_pc, search_raised>>
    /\ UNCHANGED <<foldVars, seasonVars, sampleVars, optVars, batchVars>>

\* optimization_worker: current_result = evaluate_config(start_params)
WorkerEvaluateStart(w) ==
    /\ search_pc = "running" /\ round_num < search_args.num_rounds
    /\ w \in DOMAIN walkers /\ walkers[w].pc = "started"
    /\ LET call ==
               evaluate_config_objects(walkers[w].memory, BASE_PARAMS_REF,
                                       START_PARAMS_REF,
                                       search_args.simulations_per_config,
                                       SearchHorizon,
                                       get_generator(search_args.seed, streams_spawned))
       IN walkers' = [walkers EXCEPT
                         ![w].current_result = call.evaluated.result,
                         ![w].memory = call.memory,
                         ![w].pc = IF search_args.worker_iterations > 0
                                   THEN "iterating" ELSE "returned"]
    /\ streams_spawned' = streams_spawned + 1
    /\ UNCHANGED <<search_args, start_params_list, round_num, best_result,
                   best_valid_result, search_history, returned_results,
                   search_pc, search_raised>>
    /\ UNCHANGED <<foldVars, seasonVars, sampleVars, optVars, batchVars>>

\* optimization_worker: one iteration of the loop, which ends the call when
\* mutate_params raises and returns after the last iteration
WorkerIterate(w) ==
    /\ search_pc = "running" /\ round_num < search_args.num_rounds
    /\ w \in DOMAIN walkers /\ walkers[w].pc = "iterating"
    /\ LET current == walkers[w].current_result[1]
           mutated == mutate_params_objects(walkers[w].memory, current,
                                            walkers[w].current_ref,
                                            search_args.bounds, walkers[w].rng)
           mutation == mutated.mutation
           noted == <<[given |-> current, outcome |-> mutation]>>
       IN IF mutation.raised # "none"
          THEN /\ walkers' = [walkers EXCEPT ![w].pc = "raised",
                                             ![w].rng = mutation.rng,
                                             ![w].memory = mutated.memory,
                                             ![w].last_mutation = noted]
               /\ UNCHANGED streams_spawned
          ELSE LET call ==
                       evaluate_config_objects(mutated.memory, BASE_PARAMS_REF,
                                               mutated.ref,
                                               search_args.simulations_per_config,
                                               SearchHorizon,
                                               get_generator(search_args.seed,
                                                             streams_spawned))
                   candidate_result == call.evaluated.result[1]
               IN /\ walkers' =
                        [walkers EXCEPT
                            ![w].current_result =
                                IF improves(candidate_result, current)
                                THEN <<candidate_result>> ELSE @,
                            ![w].current_ref =
                                IF improves(candidate_result, current)
                                THEN mutated.ref ELSE @,
                            ![w].memory = call.memory,
                            ![w].rng = mutation.rng,
                            ![w].i = @ + 1,
                            ![w].decisions =
                                Append(@, compare_scores(candidate_result, current)),
                            ![w].last_mutation = noted,
                            ![w].pc = IF walkers[w].i + 1 < search_args.worker_iterations
                                      THEN "iterating" ELSE "returned"]
                  /\ streams_spawned' = streams_spawned + 1
    /\ UNCHANGED <<search_args, start_params_list, round_num, best_result,
                   best_valid_result, search_history, returned_results,
                   search_pc, search_raised>>
    /\ UNCHANGED <<foldVars, seasonVars, sampleVars, optVars, batchVars>>

\* optimize: pool.starmap re-raises what a worker raised
JoinRaised ==
    /\ search_pc = "running" /\ round_num < search_args.num_rounds
    /\ \A w \in DOMAIN walkers : walkers[w].pc \in {"returned", "raised"}
    /\ \E w \in DOMAIN walkers : walkers[w].pc = "raised"
    /\ search_pc' = "raised"
    /\ search_raised' = "AttributeError"
    /\ UNCHANGED <<search_args, streams_spawned, start_params_list, walkers,
                   round_num, best_result, best_valid_result, search_history,
                   returned_results>>
    /\ UNCHANGED <<foldVars, seasonVars, sampleVars, optVars, batchVars>>

\* optimize: the rest of a round after pool.starmap returned round_results,
\* and the worker_args of the next round
JoinRound ==
    /\ search_pc = "running" /\ round_num < search_args.num_rounds
    /\ \A w \in DOMAIN walkers : walkers[w].pc = "returned"
    /\ LET round_results == [w \in DOMAIN walkers |-> walkers[w].current_result[1]]
           round_best_result == min_by_score(round_results)
           new_best ==
               IF best_result = <<>>
                  \/ score_less(calculate_score(round_best_result),
                                calculate_score(best_result[1]))
               THEN round_best_result ELSE best_result[1]
       IN /\ best_result' = <<new_best>>
          /\ search_history' = Append(search_history, new_best)
          /\ best_valid_result' =
                 IF is_valid(new_best)
                    /\ (best_valid_result = <<>>
                        \/ new_best.cost < best_valid_result[1].cost)
                 THEN <<new_best>> ELSE best_valid_result
          /\ start_params_list' = [w \in DOMAIN walkers |-> new_best.params]
          /\ returned_results' = returned_results \o round_results
    /\ round_num' = round_num + 1
    /\ walkers' = IF round_num + 1 < search_args.num_rounds
                  THEN [w \in DOMAIN walkers |-> SubmittedWorker] ELSE walkers
    /\ UNCHANGED <<search_args, streams_spawned, search_pc, search_raised>>
    /\ UNCHANGED <<foldVars, seasonVars, sampleVars, optVars, batchVars>>

\* optimize: pool.close(), pool.join(), return history
SearchReturn ==
    /\ search_pc = "running" /\ round_num = search_args.num_rounds
    /\ search_pc' = "done"
    /\ UNCHANGED <<search_args, streams_spawned, start_params_list, walkers,
                   round_num, best_result, best_valid_result, search_history,
                   returned_results, search_raised>>
    /\ UNCHANGED <<foldVars, seasonVars, sampleVars, optVars, batchVars>>

SearchNext ==
    \/ \E w \in 1..MaxWalkers : WorkerGetGenerator(w)
    \/ \E w \in 1..MaxWalkers : WorkerEvaluateStart(w)
    \/ \E w \in 1..MaxWalkers : WorkerIterate(w)
    \/ JoinRaised
    \/ JoinRound
    \/ SearchReturn

SpecSearch == SearchInit /\ [][SearchNext]_vars

\* C16: within a round a walker's current candidate is replaced only by a
\* candidate of strictly lower score; on an equal or higher score the
\* incumbent stays, so the current score never increases over the iterations.
C16_WalkerScoreNeverIncreases ==
    [][\A w \in DOMAIN walkers :
          (/\ w \in DOMAIN walkers'
           /\ walkers[w].current_result # <<>>
           /\ walkers'[w].current_result # <<>>)
          => /\ ~score_less(calculate_score(walkers[w].current_result[1]),
                            calculate_score(walkers'[w].current_result[1]))
             /\ (walkers'[w].current_result # walkers[w].current_result
                    => score_less(calculate_score(walkers'[w].current_result[1]),
                                  calculate_score(walkers[w].current_result[1])))
             /\ (/\ walkers'[w].i = walkers[w].i + 1
                 /\ walkers'[w].decisions[walkers'[w].i] \in {"equal", "higher"})
                    => walkers'[w].current_result = walkers[w].current_result]_vars

\* a walker that has returned after taking a candidate of lower score in one
\* iteration and keeping its incumbent in another
C16_Witness ==
    \E w \in DOMAIN walkers :
        /\ walkers[w].pc = "returned"
        /\ \E k \in DOMAIN walkers[w].decisions : walkers[w].decisions[k] = "lower"
        /\ \E k \in DOMAIN walkers[w].decisions : walkers[w].decisions[k] # "lower"

\* C17: mutate_params returns a configuration that differs from the given one
\* in at most one field, by +1 or -1 clamped into the field's bound; in
\* deficit the field is one of the four producer counts and the battery
\* fields keep their values; otherwise it is one of the six fields.
C17_MutationChangesOneField ==
    \A w \in DOMAIN walkers :
        walkers[w].last_mutation # <<>> =>
            LET given == walkers[w].last_mutation[1].given
                outcome == walkers[w].last_mutation[1].outcome
            IN /\ outcome.raised = "none"
               /\ LET old == given.params
                      new == outcome.params[1]
                      changed == {f \in DOMAIN old : new[f] # old[f]}
                  IN /\ DOMAIN new = DOMAIN old
                     /\ Cardinality(changed) <= 1
                     /\ \A f \in changed :
                           LET bound == bounds_get(search_args.bounds, f, <<0, 100>>)
                           IN new[f] \in {Max(bound[1], Min(old[f] + 1, bound[2])),
                                          Max(bound[1], Min(old[f] - 1, bound[2]))}
                     /\ given.energy_surplus < 0 =>
                           changed \subseteq {"power_wheel", "water_wheel",
                                              "large_windmill", "windmill"}

\* the results the walkers have returned that are feasible
FeasibleReturned ==
    {k \in 1..Len(returned_results) : is_valid(returned_results[k])}

\* C18: after every round best_result scores no higher than any result a
\* walker has returned so far, and best_valid_result, once a feasible result
\* has been returned, is set, feasible and no dearer than any feasible result
\* returned so far; neither is ever replaced by a worse candidate.
C18_BestResultsKept ==
    /\ [](round_num >= 1 =>
            /\ best_result # <<>>
            /\ \A k \in 1..Len(returned_results) :
                  ~score_less(calculate_score(returned_results[k]),
                              calculate_score(best_result[1]))
            /\ FeasibleReturned # {} =>
                  /\ best_valid_result # <<>>
                  /\ is_valid(best_valid_result[1])
                  /\ \A k \in FeasibleReturned :
                        best_valid_result[1].cost <= returned_results[k].cost)
    /\ [][/\ (best_result # <<>> /\ best_result' # best_result)
                => score_less(calculate_score(best_result'[1]),
                              calculate_score(best_result[1]))
          /\ (best_valid_result # <<>> /\ best_valid_result' # best_valid_result)
                => /\ best_valid_result' # <<>>
                   /\ best_valid_result'[1].cost < best_valid_result[1].cost]_vars

\* two rounds of two walkers: the second round returned a feasible result
\* cheaper than the best of the first, which replaced it as both bests, beside
\* a feasible result that is dearer
C18_Witness ==
    /\ round_num = 2
    /\ Len(returned_results) = 4
    /\ search_history[1] # search_history[2]
    /\ best_result = <<search_history[2]>>
    /\ best_valid_result = best_result
    /\ \E k \in FeasibleReturned : returned_results[k].cost > best_result[1].cost

\* C23: mutate_params and evaluate_config leave their inputs as they were:
\* over every step of a worker call the base SimulationParams, the energy mix
\* it refers to and the EnergyMixParams of the current candidate keep their
\* field values; what is changed is a copy.
C23_InputsUnchanged ==
    [][\A w \in DOMAIN walkers :
          (/\ w \in DOMAIN walkers'
           /\ walkers[w].memory # <<>>
           /\ walkers'[w].memory # <<>>)
          => LET before == walkers[w].memory
                 after == walkers'[w].memory
                 base_mix_ref == before[BASE_PARAMS_REF].energy_mix
             IN /\ after[BASE_PARAMS_REF] = before[BASE_PARAMS_REF]
                /\ after[base_mix_ref] = before[base_mix_ref]
                /\ after[walkers[w].current_ref] = before[walkers[w].current_ref]]_vars

\* a worker whose last mutation changed a field and was evaluated: its memory
\* holds the given configuration and the base parameters as they were, and
\* the changed configuration as another object
C23_Witness ==
    \E w \in DOMAIN walkers :
        /\ walkers[w].i >= 1
        /\ walkers[w].last_mutation[1].outcome.raised = "none"
        /\ LET given == walkers[w].last_mutation[1].given.params
               changed == walkers[w].last_mutation[1].outcome.params[1]
               objects == walkers[w].memory
           IN /\ changed # given
              /\ \E a \in DOMAIN objects : \E b \in DOMAIN objects :
                    a # b /\ objects[a] = given /\ objects[b] = changed
              /\ objects[BASE_PARAMS_REF].energy_mix = 2
              /\ objects[2] = search_args.base_params.energy_mix

\* what C26 says of a call of optimize: the history has one entry per round
\* run, the best-overall candidate of that round; a walker that returned has
\* done worker_iterations iterations; a call that has ended has run
\* iterations div worker_iterations rounds; and with a budget below
\* worker_iterations it ended without a round, an evaluation or a result
RoundsAndHistory ==
    /\ search_args.num_rounds = search_args.iterations \div search_args.worker_iterations
    /\ Len(search_history) = round_num
    /\ search_history # <<>> => search_history[Len(search_history)] = best_result[1]
    /\ \A w \in DOMAIN walkers :
          walkers[w].pc = "returned" => walkers[w].i = search_args.worker_iterations
    /\ search_pc # "running" =>
          /\ round_num = search_args.num_rounds
          /\ Len(returned_results) = search_args.num_rounds * search_args.pool_size
          /\ search_args.iterations < search_args.worker_iterations =>
                /\ search_history = <<>>
                /\ returned_results = <<>>
                /\ \A w \in DOMAIN walkers : walkers[w].pc = "submitted"
                /\ streams_spawned = 1
                /\ find_optimal_solutions(search_history, 5) = <<>>

\* C26: optimize runs exactly iterations div worker_iterations rounds of
\* worker_iterations iterations per walker (10 in the code) and appends one
\* entry, the best-overall candidate, to the history per round; with a budget
\* below worker_iterations no round runs, nothing is evaluated and the
\* history and the list of optimal solutions are empty.
C26_RoundsAndHistory == RoundsAndHistory

\* the same for the calls in which no worker raised
RoundsAndHistoryUnlessRaised == search_pc = "raised" \/ RoundsAndHistory

\* optimize has returned after two rounds with a history of two entries
TwoRoundsReturned ==
    /\ search_pc = "done"
    /\ search_args.num_rounds = 2 /\ round_num = 2
    /\ Len(search_history) = 2

\* optimize has returned for a budget of one iteration against rounds of two
NoRoundReturned ==
    /\ search_pc = "done"
    /\ search_args.iterations = 1 /\ search_args.worker_iterations = 2
    /\ search_history = <<>>

\* the key of the bounds that get_random_params reads for each field
BOUND_NAMES ==
    [power_wheel |-> "power_wheel", water_wheel |-> "water_wheel",
     large_windmill |-> "large_windmills", windmill |-> "windmills",
     battery |-> "batteries", battery_height |-> "battery_height"]

\* every field of the configuration lies within its inclusive [low, high]
within_bounds(params, bounds) ==
    \A field \in DOMAIN BOUND_NAMES :
        /\ bounds[BOUND_NAMES[field]][1] <= params[field]
        /\ params[field] <= bounds[BOUND_NAMES[field]][2]

\* C30: in the first round the walkers start from the configurations drawn
\* one after the other from the main generator, each field within its
\* inclusive bound; from the second round on every walker starts from the
\* configuration of the best-overall candidate; and every configuration that
\* is evaluated at any point of the search has every field within its bound.
C30_StartsAndBounds ==
    LET bounds == search_args.bounds
    IN /\ round_num = 0 =>
             /\ start_params_list =
                    initial_start_params(bounds, get_generator(search_args.seed, 0),
                                         search_args.pool_size, <<>>)
             /\ \A w \in DOMAIN start_params_list :
                    within_bounds(start_params_list[w], bounds)
       /\ round_num >= 1 =>
             \A w \in DOMAIN start_params_list :
                 start_params_list[w] = best_result[1].params
       /\ \A w \in DOMAIN walkers :
             /\ (round_num < search_args.num_rounds /\ walkers[w].memory # <<>>) =>
                    walkers[w].memory[START_PARAMS_REF] = start_params_list[w]
             /\ walkers[w].current_result # <<>> =>
                    within_bounds(walkers[w].current_result[1].params, bounds)
             /\ (walkers[w].last_mutation # <<>>
                 /\ walkers[w].last_mutation[1].outcome.raised = "none") =>
                    within_bounds(walkers[w].last_mutation[1].outcome.params[1], bounds)
       /\ \A i \in DOMAIN returned_results :
             within_bounds(returned_results[i].params, bounds)

\* in the second round, a walker that started from the best-overall
\* configuration of the first round, which is not the one drawn for it, has
\* evaluated a mutation that the clamp kept at the bound
C30_Witness ==
    /\ round_num = 1 /\ search_args.num_rounds = 2 /\ search_pc = "running"
    /\ \E w \in DOMAIN walkers :
          /\ walkers[w].i >= 1
          /\ walkers[w].memory[START_PARAMS_REF] = best_result[1].params
          /\ best_result[1].params #
                 initial_start_params(search_args.bounds,
                                      get_generator(search_args.seed, 0),
                                      search_args.pool_size, <<>>)[w]
          /\ walkers[w].last_mutation[1].outcome.raised = "none"
          /\ walkers[w].last_mutation[1].outcome.params[1]
                 = walkers[w].last_mutation[1].given.params

====
